---- MODULE Spec2Model ----
(***************************************************************************)
(* Model of the ADBC driver adapter of arrow-adbc                          *)
(* (src/arrow-adbc/src/implement/internal.rs): the private_data protocol   *)
(* of the three FFI handle kinds, the reference-counted state values       *)
(* behind them and the entry-point shims of the driver table.              *)
(***************************************************************************)
EXTENDS Integers, Sequences, FiniteSets, TLC

\* ---------------------------------------------------------------- bounds
\* Number of addresses the allocator has: the state values that can exist at one time.
MaxAlloc == 3
\* Number of elements table_type_vec can hold before the allocator gives up.
MaxPush == 2

\* ------------------------------------------------------------- constants
\* std::ptr::null_mut(): the null private_data / the null handle pointer.
NULL == 0

Addrs == 1..MaxAlloc
\* The caller's handles: FFI_AdbcDatabase, FFI_AdbcConnection, FFI_AdbcStatement records.
DbHandles == {1}
ConnHandles == {1, 2}
StmtHandles == {1}
\* Pointers to caller memory other than handles (error record, outputs, buffers).
Ptrs == {"null", "valid"}
\* C strings: a null pointer, "", a non-empty string, bytes that are not UTF-8.
NullStr == "<null>"
BadUtf8 == "<bad-utf8>"
CStrs == {NullStr, "", "a", BadUtf8}
\* No message was written to the caller's Error Record.
NoMsg == "<none>"
\* Option<&str>::None
None == "<None>"
\* Outcomes of a call after which control never returns to the ABI caller.
NoReturn == {"Segfault", "Abort", "Unwind"}

VARIABLES
    dbSlot,     \* FFI_AdbcDatabase.private_data of each database handle
    connSlot,   \* FFI_AdbcConnection.private_data of each connection handle
    stmtSlot,   \* FFI_AdbcStatement.private_data of each statement handle
    heap,       \* the boxed state values and their reference counts
    pc,         \* "caller": between calls; "get_objects": inside the table_type loop;
                \* "returned": a shim has returned its status; "dead": the process is gone
    frame,      \* the locals of the connection_get_objects call in flight
    last,       \* the last entry-point call: op, arguments, status, implementation calls, outputs
    driver,     \* the FFI_AdbcDriver table the caller holds
    thread,     \* the Connection calls in flight on the caller's threads, one per connection handle
    batchReader \* the BatchReader behind the stream of a ConnectionGetTableTypes call

vars == <<dbSlot, connSlot, stmtSlot, heap, pc, frame, last, driver, thread, batchReader>>

\* ------------------------------------------------------------------ heap
EmptyHeap ==
    [kind   |-> [a \in Addrs |-> "none"],
     box    |-> [a \in Addrs |-> "none"],
     val    |-> [a \in Addrs |-> "none"],
     strong |-> [a \in Addrs |-> 0],
     parent |-> [a \in Addrs |-> NULL]]

\* An address the allocator can hand out: nothing lives there and nothing refers to it.
Free(h, a) ==
    /\ h.box[a] \in {"none", "freed"}
    /\ h.val[a] \in {"none", "dropped"}
    /\ h.strong[a] = 0
    /\ \A b \in Addrs : h.parent[b] # a

\* The memory freed during a call goes back to the allocator when the call has returned,
\* so that "freed" and "dropped" in a state are what the last call destroyed.
Sweep(h) ==
    [h EXCEPT !.kind = [a \in Addrs |-> IF Free(h, a) THEN "none" ELSE h.kind[a]],
              !.box  = [a \in Addrs |-> IF Free(h, a) THEN "none" ELSE h.box[a]],
              !.val  = [a \in Addrs |-> IF Free(h, a) THEN "none" ELSE h.val[a]]]

HasFree(h) == \E a \in Addrs : Free(h, a)
\* The address of the next allocation
Alloc(h) == CHOOSE a \in Addrs : Free(h, a) /\ \A b \in Addrs : b < a => ~Free(h, b)

\* Mutant of drop_value: the value is destroyed without dropping the reference it holds
drop_value_leaking(h, a) ==
    [h EXCEPT !.val[a] = IF @ = "live" THEN "dropped" ELSE "double-dropped",
              !.parent[a] = NULL]

\* Dropping the state value at a: it is destroyed and the shared reference it holds to
\* its parent (a Connection's Arc<Database>, a Statement's Rc<Connection>) is dropped too.
RECURSIVE drop_value(_, _)
drop_value(h, a) ==
    LET p  == h.parent[a]
        h1 == [h EXCEPT !.val[a] = IF @ = "live" THEN "dropped" ELSE "double-dropped",
                        !.parent[a] = NULL]
    IN IF p = NULL THEN h1
       ELSE IF h1.strong[p] > 1 THEN [h1 EXCEPT !.strong[p] = @ - 1]
       ELSE drop_value([h1 EXCEPT !.strong[p] = 0], p)

\* Drop of one Arc / Rc handle to the value at a.
drop_rc(h, a) ==
    IF h.strong[a] > 1 THEN [h EXCEPT !.strong[a] = @ - 1]
    ELSE drop_value([h EXCEPT !.strong[a] = 0], a)

\* Mutant of clone_rc: the reference is handed over without counting it
clone_rc_uncounted(h, a) == h

\* Arc::clone / Rc::clone
clone_rc(h, a) == [h EXCEPT !.strong[a] = @ + 1]

\* Arc::new(DatabaseType::default()) / Rc::new(ConnectionType::default()); the new value is at address a
rc_new(h, a, k) ==
    [h EXCEPT !.kind[a] = k, !.box[a] = "none", !.val[a] = "live", !.strong[a] = 1]

\* StatementType::new_from_connection(connection.clone()): the statement keeps the Rc it is given
new_from_connection(h, a, conn) ==
    [h EXCEPT !.kind[a] = "Statement", !.box[a] = "none", !.val[a] = "live",
              !.parent[a] = conn]

\* Mutant of drop_inner: the value is forgotten instead of dropped
drop_inner_forgotten(h, a) == h

\* Mutant of drop_inner: the handle's value is destroyed whatever else refers to it
drop_inner_owned(h, a) == drop_value(h, a)

\* Drop of a value of type Inner that is not (or no longer) boxed.
drop_inner(h, a) ==
    IF h.kind[a] = "Statement" THEN drop_value(h, a) ELSE drop_rc(h, a)

\* Box::new + Box::into_raw
Box_into_raw(h, a) == [h EXCEPT !.box[a] = "live"]

\* Box::from_raw, dropped at the end of the statement
Box_from_raw(h, a) ==
    drop_inner([h EXCEPT !.box[a] = IF @ = "live" THEN "freed" ELSE "double-freed"], a)

\* ---------------------------------------------------------------- errors
InvalidState(msg) == [type |-> "AdbcFFIError", code |-> "InvalidState", msg |-> msg]
NotImplemented(msg) == [type |-> "AdbcFFIError", code |-> "NotImplemented", msg |-> msg]
\* The AdbcError implementation of std::str::Utf8Error
Utf8Error == [type |-> "Utf8Error", code |-> "InvalidArguments", msg |-> "Invalid UTF-8 character"]
\* The AdbcError implementation of arrow's ArrowError
ArrowError == [type |-> "ArrowError", code |-> "Internal", msg |-> "arrow error"]
\* The errors of the capability implementation (its own status code and message)
ImplCodes == {"IO", "NotFound"}
ImplError(c) == [type |-> "Impl", code |-> c,
                 msg |-> IF c = "IO" THEN "io failure" ELSE "no such object"]
\* What a capability operation can do: succeed, fail with a typed error, or panic
ImplOutcomes == {"Ok", "Panic"} \cup ImplCodes

\* AdbcFFIError::status_code
AdbcFFIError_status_code(e) ==
    IF e.code = "InvalidState" THEN "InvalidState" ELSE "NotImplemented"
\* AdbcFFIError::message
AdbcFFIError_message(e) == e.msg

status_code(e) == IF e.type = "AdbcFFIError" THEN AdbcFFIError_status_code(e) ELSE e.code
message(e) == IF e.type = "AdbcFFIError" THEN AdbcFFIError_message(e) ELSE e.msg

Ok(v) == [ok |-> TRUE, crash |-> FALSE, val |-> v]
Err(e) == [ok |-> FALSE, crash |-> FALSE, err |-> e]
\* The evaluation did not come back: an access through a null pointer killed the process
Crash == [ok |-> FALSE, crash |-> TRUE]

\* check_err!(res, error) on Err(e): fill the Error Record if there is one, return the status
check_err(e, error) ==
    [status |-> status_code(e), msg |-> IF error = "null" THEN NoMsg ELSE message(e)]
\* FFI_AdbcError::set_message(error, msg)
set_message(error, msg) == IF error = "null" THEN NoMsg ELSE msg

\* ------------------------------------------------------ PrivateDataWrapper
\* Mutant of init_inner: the slot is overwritten without looking at it
init_inner_overwrite(h, private_data, data) ==
    [res |-> Ok(data), private_data |-> data, heap |-> Box_into_raw(h, data)]

\* Mutant of init_inner: the null test is inverted
init_inner_inverted(h, private_data, data) ==
    IF private_data # NULL
    THEN [res |-> Ok(data), private_data |-> data, heap |-> Box_into_raw(h, data)]
    ELSE [res |-> Err(InvalidState("Already initialized.")),
          private_data |-> private_data, heap |-> drop_inner(h, data)]

\* Mutant of init_inner: the slot is set to the value without boxing it
init_inner_unboxed(h, private_data, data) ==
    IF private_data = NULL
    THEN [res |-> Ok(data), private_data |-> data, heap |-> h]
    ELSE [res |-> Err(InvalidState("Already initialized.")),
          private_data |-> private_data, heap |-> drop_inner(h, data)]

\* init_inner: [res, private_data, heap]; data is the address of the value moved in
init_inner(h, private_data, data) ==
    IF private_data = NULL
    THEN [res |-> Ok(data), private_data |-> data, heap |-> Box_into_raw(h, data)]
    ELSE [res |-> Err(InvalidState("Already initialized.")),
          private_data |-> private_data, heap |-> drop_inner(h, data)]

get_inner_ref(private_data) ==
    IF private_data = NULL THEN Err(InvalidState("Uninitialized.")) ELSE Ok(private_data)

\* Mutant of get_inner_mut: the pointer is not tested
get_inner_mut_unchecked(private_data) == Ok(private_data)

get_inner_mut(private_data) ==
    IF private_data = NULL THEN Err(InvalidState("Uninitialized.")) ELSE Ok(private_data)

\* Mutant of release_inner: the dangling pointer is left in the slot
release_inner_dangling(h, private_data) ==
    IF private_data # NULL
    THEN [private_data |-> private_data, heap |-> Box_from_raw(h, private_data)]
    ELSE [private_data |-> private_data, heap |-> h]

\* release_inner: [private_data, heap]
release_inner(h, private_data) ==
    IF private_data # NULL
    THEN [private_data |-> NULL, heap |-> Box_from_raw(h, private_data)]
    ELSE [private_data |-> private_data, heap |-> h]

\* try_unwrap(ptr) over the slots of the handle kind
try_unwrap(slots, ptr) ==
    IF ptr = NULL THEN Err(InvalidState("Passed a null pointer."))
    ELSE get_inner_ref(slots[ptr])

try_unwrap_mut(slots, ptr) ==
    IF ptr = NULL THEN Err(InvalidState("Passed a null pointer."))
    ELSE get_inner_mut(slots[ptr])

\* The private_data a call finds in the handle it is given (NULL for a null handle pointer)
Pre(slots, ptr) == IF ptr = NULL THEN NULL ELSE slots[ptr]

\* ------------------------------------------------------- return to caller
NoFrame == [op |-> "none"]

\* The end of a call: what the caller (or the post-mortem) sees of it
Finish(op, args, pre, status, impl, wrote, msg, panicked) ==
    /\ last' = [op |-> op, args |-> args, pre |-> pre, status |-> status,
                impl |-> impl, wrote |-> wrote, msg |-> msg, panicked |-> panicked]
    /\ pc' = IF status \in NoReturn THEN "dead" ELSE "returned"
    /\ frame' = NoFrame

Return(op, args, pre, status, impl, wrote, msg) ==
    Finish(op, args, pre, status, impl, wrote, msg, FALSE)

NoCall == [op |-> "none", args |-> [error |-> "null"], pre |-> NULL, status |-> "Ok",
           impl |-> <<>>, wrote |-> {}, msg |-> NoMsg, panicked |-> FALSE]

\* The program compares addresses for equality only, so a state is kept up to a renaming
\* of the addresses.  Between two calls the values are numbered in the order in which
\* the handles reach them: the slots of the Database, Connection and Statement handles,
\* then the parents of those values, then the parents of the parents.
SlotsInOrder(d, c, s) ==
    [i \in 1..Cardinality(DbHandles) |-> d[i]]
        \o [i \in 1..Cardinality(ConnHandles) |-> c[i]]
        \o [i \in 1..Cardinality(StmtHandles) |-> s[i]]
ParentsInOrder(h, ptrs) ==
    [i \in DOMAIN ptrs |-> IF ptrs[i] = NULL THEN NULL ELSE h.parent[ptrs[i]]]
\* The place of address a in the sequence of pointers v; an address v does not hold
\* comes after all that it holds
FirstIn(v, a) ==
    IF \E i \in DOMAIN v : v[i] = a
    THEN CHOOSE i \in DOMAIN v : v[i] = a /\ \A j \in 1..(i - 1) : v[j] # a
    ELSE Len(v) + a
\* The renaming: a permutation of the addresses
CanonicalOrder(h, d, c, s) ==
    LET r0 == SlotsInOrder(d, c, s)
        r1 == ParentsInOrder(h, r0)
        v  == r0 \o r1 \o ParentsInOrder(h, r1)
    IN [a \in Addrs |-> 1 + Cardinality({b \in Addrs : FirstIn(v, b) < FirstIn(v, a)})]
\* The address that the renaming p gives the number n
Renamed(p, n) == CHOOSE a \in Addrs : p[a] = n
RenamedHeap(h, p) ==
    [kind   |-> [n \in Addrs |-> h.kind[Renamed(p, n)]],
     box    |-> [n \in Addrs |-> h.box[Renamed(p, n)]],
     val    |-> [n \in Addrs |-> h.val[Renamed(p, n)]],
     strong |-> [n \in Addrs |-> h.strong[Renamed(p, n)]],
     parent |-> [n \in Addrs |-> IF h.parent[Renamed(p, n)] = NULL THEN NULL
                                  ELSE p[h.parent[Renamed(p, n)]]]]
RenamedSlots(slots, p) ==
    [x \in DOMAIN slots |-> IF slots[x] = NULL THEN NULL ELSE p[slots[x]]]

\* Control is back in the ABI caller: it has read the status, the Error Record and the
\* outputs of the call (all transient, owned by the caller) and is free to make the next call.
caller_resumes ==
    /\ pc = "returned"
    /\ pc' = "caller"
    /\ last' = NoCall
    /\ \E h \in {Sweep(heap)} :
         \E p \in {CanonicalOrder(h, dbSlot, connSlot, stmtSlot)} :
           /\ heap' = RenamedHeap(h, p)
           /\ dbSlot' = RenamedSlots(dbSlot, p)
           /\ connSlot' = RenamedSlots(connSlot, p)
           /\ stmtSlot' = RenamedSlots(stmtSlot, p)
    /\ UNCHANGED <<frame, driver, thread, batchReader>>

\* Mutant of Fail: the error is written to the Error Record without a test of the pointer
Fail_unchecked_record(op, args, pre, e, impl) ==
    IF args.error = "null" THEN Return(op, args, pre, "Segfault", impl, {}, NoMsg)
    ELSE Return(op, args, pre, check_err(e, args.error).status, impl, {},
                check_err(e, args.error).msg)

\* check_err!(Err(e), error); return
Fail(op, args, pre, e, impl) ==
    Return(op, args, pre, check_err(e, args.error).status, impl, {},
           check_err(e, args.error).msg)

\* A panic in the implementation: the shims are extern "C" functions without catch_unwind,
\* so the panic either aborts the process or unwinds into the caller's frames.
Panicked(op, args, pre, impl) ==
    \E s \in {"Abort", "Unwind"} : Finish(op, args, pre, s, impl, {}, NoMsg, TRUE)

\* The record of the one call a shim makes to the capability implementation: the
\* operation with the arguments it is given, and what the operation did
Called(call, o) == << [call |-> call, result |-> o] >>

\* The status a shim returns for the outcome o of the implementation operation it called,
\* when that operation returns
StatusOfOutcome(o) == IF o = "Ok" THEN "Ok" ELSE status_code(ImplError(o))

\* Mutant of ImplDone: an error of the implementation is not propagated
ImplDone_error_dropped(op, args, pre, o, call) ==
    IF o = "Panic" THEN Panicked(op, args, pre, Called(call, o))
    ELSE Return(op, args, pre, "Ok", Called(call, o), {}, NoMsg)

\* The result of a capability operation with outcome o that has no output
ImplDone(op, args, pre, o, call) ==
    IF o = "Ok" THEN Return(op, args, pre, "Ok", Called(call, o), {}, NoMsg)
    ELSE IF o = "Panic" THEN Panicked(op, args, pre, Called(call, o))
    ELSE Fail(op, args, pre, ImplError(o), Called(call, o))

\* -------------------------------------------------------------- Database
database_new(database, error) ==
    LET args == [database |-> database, error |-> error]
        pre  == Pre(dbSlot, database)
        db   == Alloc(heap)
        h1   == rc_new(heap, db, "Database")
    IN /\ pc = "caller"
       /\ HasFree(heap)
       /\ IF database = NULL
          THEN /\ heap' = drop_inner(h1, db)
               /\ UNCHANGED dbSlot
               /\ Fail("DatabaseNew", args, pre,
                       InvalidState("Passed a null pointer to DatabaseNew"), <<>>)
          ELSE LET r == init_inner(h1, dbSlot[database], db)
               IN /\ heap' = r.heap
                  /\ dbSlot' = [dbSlot EXCEPT ![database] = r.private_data]
                  /\ IF r.res.ok
                     THEN Return("DatabaseNew", args, pre, "Ok", <<>>, {}, NoMsg)
                     ELSE Fail("DatabaseNew", args, pre, r.res.err, <<>>)
       /\ UNCHANGED <<connSlot, stmtSlot>>

database_init(database, error, o) ==
    LET args  == [database |-> database, error |-> error]
        pre   == Pre(dbSlot, database)
        inner == IF database = NULL
                 THEN Err(InvalidState("Passed a null pointer to DatabaseInit"))
                 ELSE get_inner_ref(dbSlot[database])
    IN /\ pc = "caller"
       /\ IF ~inner.ok
          THEN Fail("DatabaseInit", args, pre, inner.err, <<>>)
          ELSE ImplDone("DatabaseInit", args, pre, o, <<"init">>)
       /\ UNCHANGED heap
       /\ UNCHANGED <<dbSlot, connSlot, stmtSlot>>

database_release(database) ==
    LET args == [database |-> database]
        pre  == Pre(dbSlot, database)
    IN /\ pc = "caller"
       /\ IF database # NULL
          THEN LET r == release_inner(heap, dbSlot[database])
               IN /\ heap' = r.heap
                  /\ dbSlot' = [dbSlot EXCEPT ![database] = r.private_data]
          ELSE UNCHANGED heap /\ UNCHANGED dbSlot
       /\ Return("DatabaseRelease", args, pre, "Ok", <<>>, {}, NoMsg)
       /\ UNCHANGED <<connSlot, stmtSlot>>

\* ------------------------------------------------------------ Connection
connection_new(connection, error) ==
    LET args == [connection |-> connection, error |-> error]
        pre  == Pre(connSlot, connection)
        conn == Alloc(heap)
        h1   == rc_new(heap, conn, "Connection")
    IN /\ pc = "caller"
       /\ HasFree(heap)
       /\ IF connection = NULL
          THEN /\ heap' = drop_inner(h1, conn)
               /\ UNCHANGED connSlot
               /\ Fail("ConnectionNew", args, pre,
                       InvalidState("Passed a null pointer to ConnectionNew"), <<>>)
          ELSE LET r == init_inner(h1, connSlot[connection], conn)
               IN /\ heap' = r.heap
                  /\ connSlot' = [connSlot EXCEPT ![connection] = r.private_data]
                  /\ IF r.res.ok
                     THEN Return("ConnectionNew", args, pre, "Ok", <<>>, {}, NoMsg)
                     ELSE Fail("ConnectionNew", args, pre, r.res.err, <<>>)
       /\ UNCHANGED <<dbSlot, stmtSlot>>

\* AdbcConnectionImpl::init(&self, database: Arc<DatabaseType>): a connection that is
\* initialized keeps the Arc it is given (replacing the one of an earlier init); a failed
\* or panicking init drops it.
ConnectionImpl_init(h, conn, db, o) ==
    IF o = "Ok"
    THEN LET old == h.parent[conn]
             h1  == [h EXCEPT !.parent[conn] = db]
         IN IF old = NULL THEN h1 ELSE drop_rc(h1, old)
    ELSE drop_rc(h, db)

\* Mutant of connection_init: the Database reference is cloned before the Connection
\* handle is looked at, and kept when that handle is rejected
connection_init_clone_first(connection, database, error, o) ==
    LET args  == [connection |-> connection, database |-> database, error |-> error]
        pre   == Pre(connSlot, connection)
        inner == try_unwrap(connSlot, connection)
        db    == try_unwrap(dbSlot, database)
    IN /\ pc = "caller"
       /\ IF ~db.ok
          THEN /\ Fail("ConnectionInit", args, pre, db.err, <<>>)
               /\ UNCHANGED heap
          ELSE IF ~inner.ok
          THEN /\ Fail("ConnectionInit", args, pre, inner.err, <<>>)
               /\ heap' = clone_rc(heap, db.val)
          ELSE /\ heap' = ConnectionImpl_init(clone_rc(heap, db.val),
                                              inner.val, db.val, o)
               /\ ImplDone("ConnectionInit", args, pre, o, <<"init", db.val>>)
       /\ UNCHANGED <<dbSlot, connSlot, stmtSlot>>

connection_init(connection, database, error, o) ==
    LET args  == [connection |-> connection, database |-> database, error |-> error]
        pre   == Pre(connSlot, connection)
        inner == try_unwrap(connSlot, connection)
        db    == try_unwrap(dbSlot, database)
    IN /\ pc = "caller"
       /\ IF ~inner.ok
          THEN /\ Fail("ConnectionInit", args, pre, inner.err, <<>>)
               /\ UNCHANGED heap
          ELSE IF ~db.ok
          THEN /\ Fail("ConnectionInit", args, pre, db.err, <<>>)
               /\ UNCHANGED heap
          ELSE /\ heap' = ConnectionImpl_init(clone_rc(heap, db.val),
                                              inner.val, db.val, o)
               /\ ImplDone("ConnectionInit", args, pre, o, <<"init", db.val>>)
       /\ UNCHANGED <<dbSlot, connSlot, stmtSlot>>

connection_release(connection) ==
    LET args == [connection |-> connection]
        pre  == Pre(connSlot, connection)
    IN /\ pc = "caller"
       /\ IF connection # NULL
          THEN LET r == release_inner(heap, connSlot[connection])
               IN /\ heap' = r.heap
                  /\ connSlot' = [connSlot EXCEPT ![connection] = r.private_data]
          ELSE UNCHANGED heap /\ UNCHANGED connSlot
       /\ Return("ConnectionRelease", args, pre, "Ok", <<>>, {}, NoMsg)
       /\ UNCHANGED <<dbSlot, stmtSlot>>

\* ------------------------------------------------------------- Statement
statement_new(connection_ptr, statement_out, error) ==
    LET args == [connection |-> connection_ptr, statement |-> statement_out, error |-> error]
        pre  == Pre(stmtSlot, statement_out)
        connection == try_unwrap(connSlot, connection_ptr)
    IN /\ pc = "caller"
       /\ IF ~connection.ok
          THEN /\ Fail("StatementNew", args, pre, connection.err, <<>>)
               /\ UNCHANGED heap
               /\ UNCHANGED stmtSlot
          ELSE /\ HasFree(heap)
               /\ LET statement == Alloc(heap)
                      h1 == new_from_connection(clone_rc(heap, connection.val),
                                                statement, connection.val)
                  IN IF statement_out = NULL
                     THEN /\ heap' = drop_inner(h1, statement)
                          /\ UNCHANGED stmtSlot
                          /\ Fail("StatementNew", args, pre,
                                  InvalidState("Passed a null pointer to StatementNew"), <<>>)
                     ELSE LET r == init_inner(h1, stmtSlot[statement_out], statement)
                          IN /\ heap' = r.heap
                             /\ stmtSlot' = [stmtSlot EXCEPT ![statement_out] = r.private_data]
                             /\ IF r.res.ok
                                THEN Return("StatementNew", args, pre, "Ok", <<>>, {}, NoMsg)
                                ELSE Fail("StatementNew", args, pre, r.res.err, <<>>)
       /\ UNCHANGED <<dbSlot, connSlot>>

statement_release(statement) ==
    LET args == [statement |-> statement]
        pre  == Pre(stmtSlot, statement)
    IN /\ pc = "caller"
       /\ IF statement # NULL
          THEN LET r == release_inner(heap, stmtSlot[statement])
               IN /\ heap' = r.heap
                  /\ stmtSlot' = [stmtSlot EXCEPT ![statement] = r.private_data]
          ELSE UNCHANGED heap /\ UNCHANGED stmtSlot
       /\ Return("StatementRelease", args, pre, "Ok", <<>>, {}, NoMsg)
       /\ UNCHANGED <<dbSlot, connSlot>>

\* --------------------------------------------------------------- strings
\* CStr::from_ptr(p).to_str(): the possible results.  A null p is read all the same
\* (undefined behaviour): the process dies, or whatever bytes are found there are decoded.
CStr_to_str(p) ==
    IF p = NullStr THEN {Crash, Ok(""), Ok("a"), Err(Utf8Error)}
    ELSE IF p = BadUtf8 THEN {Err(Utf8Error)}
    ELSE {Ok(p)}

\* Mutant of is_null: no output pointer is taken to be null
is_null_never(p) == FALSE

\* out_schema.is_null() / out_partitions.is_null()
is_null(p) == p = "null"

\* Mutant of get_maybe_str: a null input is decoded as the empty string
get_maybe_str_null_as_empty(input) ==
    IF input = NullStr THEN Ok("")
    ELSE IF input = BadUtf8 THEN Err(Utf8Error)
    ELSE Ok(input)

\* get_maybe_str(input): Ok(None) for a null input, else the decoded string
get_maybe_str(input) ==
    IF input = NullStr THEN Ok(None)
    ELSE IF input = BadUtf8 THEN Err(Utf8Error)
    ELSE Ok(input)

\* Mutant of unwrap_or_empty: the absent string is handed on as it is
unwrap_or_empty_kept_none(s) == s

\* Option::unwrap_or("")
unwrap_or_empty(s) == IF s = None THEN "" ELSE s

\* std::slice::from_raw_parts(p, len): TRUE when the slice can be read.  A null p is
\* undefined behaviour: the slice the implementation gets may or may not be readable.
from_raw_parts(p) == IF p = "null" THEN {TRUE, FALSE} ELSE {TRUE}

\* export_reader_into_raw(reader, out) / ptr::write_unaligned(out, v): TRUE when the
\* output was written.  Writing through a null out is undefined behaviour: the process
\* dies (Crash) or the write is lost.
write_out(out) == IF out = "null" THEN {Crash, Ok(FALSE)} ELSE {Ok(TRUE)}

\* ---------------------------------------------------- Database (options)
database_set_option(database, key, value, error) ==
    LET args  == [database |-> database, key |-> key, value |-> value, error |-> error]
        pre   == Pre(dbSlot, database)
        inner == try_unwrap(dbSlot, database)
    IN /\ pc = "caller"
       /\ IF ~inner.ok
          THEN Fail("DatabaseSetOption", args, pre, inner.err, <<>>)
          ELSE \E k \in CStr_to_str(key) :
                 IF k.crash THEN Return("DatabaseSetOption", args, pre, "Segfault", <<>>, {}, NoMsg)
                 ELSE IF ~k.ok THEN Fail("DatabaseSetOption", args, pre, k.err, <<>>)
                 ELSE \E v \in CStr_to_str(value) :
                        IF v.crash
                        THEN Return("DatabaseSetOption", args, pre, "Segfault", <<>>, {}, NoMsg)
                        ELSE IF ~v.ok THEN Fail("DatabaseSetOption", args, pre, v.err, <<>>)
                        ELSE \E o \in ImplOutcomes :
                               ImplDone("DatabaseSetOption", args, pre, o,
                                        <<"set_option", k.val, v.val>>)
       /\ UNCHANGED <<dbSlot, connSlot, stmtSlot, heap>>

\* -------------------------------------------------- Connection (accessors)
connection_set_option(connection, key, value, error) ==
    LET args  == [connection |-> connection, key |-> key, value |-> value, error |-> error]
        pre   == Pre(connSlot, connection)
        inner == try_unwrap(connSlot, connection)
    IN /\ pc = "caller"
       /\ IF ~inner.ok
          THEN Fail("ConnectionSetOption", args, pre, inner.err, <<>>)
          ELSE \E k \in CStr_to_str(key) :
                 IF k.crash
                 THEN Return("ConnectionSetOption", args, pre, "Segfault", <<>>, {}, NoMsg)
                 ELSE IF ~k.ok THEN Fail("ConnectionSetOption", args, pre, k.err, <<>>)
                 ELSE \E v \in CStr_to_str(value) :
                        IF v.crash
                        THEN Return("ConnectionSetOption", args, pre, "Segfault", <<>>, {}, NoMsg)
                        ELSE IF ~v.ok THEN Fail("ConnectionSetOption", args, pre, v.err, <<>>)
                        ELSE \E o \in ImplOutcomes :
                               ImplDone("ConnectionSetOption", args, pre, o,
                                        <<"set_option", k.val, v.val>>)
       /\ UNCHANGED <<dbSlot, connSlot, stmtSlot, heap>>

\* Mutant of ExportReader: the stream is exported before the result is looked at
ExportReader_before_check(op, args, pre, o, call, out) ==
    IF o = "Panic" THEN Panicked(op, args, pre, Called(call, o))
    ELSE \E w \in write_out(out) :
           IF w.crash THEN Return(op, args, pre, "Segfault", Called(call, o), {}, NoMsg)
           ELSE Return(op, args, pre, StatusOfOutcome(o), Called(call, o),
                       IF w.val THEN {"stream"} ELSE {},
                       IF o = "Ok" THEN NoMsg ELSE check_err(ImplError(o), args.error).msg)

\* The result of a capability operation with outcome o whose reader is exported to out
ExportReader(op, args, pre, o, call, out) ==
    IF o = "Panic" THEN Panicked(op, args, pre, Called(call, o))
    ELSE IF o # "Ok" THEN Fail(op, args, pre, ImplError(o), Called(call, o))
    ELSE \E w \in write_out(out) :
           IF w.crash THEN Return(op, args, pre, "Segfault", Called(call, o), {}, NoMsg)
           ELSE Return(op, args, pre, "Ok", Called(call, o),
                       IF w.val THEN {"stream"} ELSE {}, NoMsg)

connection_get_info(connection, info_codes, out, error) ==
    LET args  == [connection |-> connection, info_codes |-> info_codes, out |-> out,
                  error |-> error]
        pre   == Pre(connSlot, connection)
        inner == try_unwrap(connSlot, connection)
    IN /\ pc = "caller"
       /\ IF ~inner.ok
          THEN Fail("ConnectionGetInfo", args, pre, inner.err, <<>>)
          ELSE \E readable \in from_raw_parts(info_codes) :
                 IF ~readable
                 THEN Return("ConnectionGetInfo", args, pre, "Segfault",
                             Called(<<"get_info">>, "Segfault"), {}, NoMsg)
                 ELSE \E o \in ImplOutcomes :
                        ExportReader("ConnectionGetInfo", args, pre, o, <<"get_info">>, out)
       /\ UNCHANGED <<dbSlot, connSlot, stmtSlot, heap>>

connection_read_partition(connection, serialized_partition, out, error) ==
    LET args  == [connection |-> connection, serialized_partition |-> serialized_partition,
                  out |-> out, error |-> error]
        pre   == Pre(connSlot, connection)
        inner == try_unwrap(connSlot, connection)
    IN /\ pc = "caller"
       /\ IF ~inner.ok
          THEN Fail("ConnectionReadPartition", args, pre, inner.err, <<>>)
          ELSE \E readable \in from_raw_parts(serialized_partition) :
                 IF ~readable
                 THEN Return("ConnectionReadPartition", args, pre, "Segfault",
                             Called(<<"read_partition">>, "Segfault"), {}, NoMsg)
                 ELSE \E o \in ImplOutcomes :
                        ExportReader("ConnectionReadPartition", args, pre, o,
                                     <<"read_partition">>, out)
       /\ UNCHANGED <<dbSlot, connSlot, stmtSlot, heap>>

\* What get_table_types() can do: "BadBatch" is a success whose strings
\* RecordBatch::try_new does not accept as the table_type column
TableTypesOutcomes == ImplOutcomes \cup {"BadBatch"}

connection_get_table_types(connection, out, error) ==
    LET args  == [connection |-> connection, out |-> out, error |-> error]
        pre   == Pre(connSlot, connection)
        inner == try_unwrap(connSlot, connection)
    IN /\ pc = "caller"
       /\ IF ~inner.ok
          THEN Fail("ConnectionGetTableTypes", args, pre, inner.err, <<>>)
          ELSE \E o \in TableTypesOutcomes :
                 IF o = "BadBatch"
                 THEN Fail("ConnectionGetTableTypes", args, pre, ArrowError,
                           Called(<<"get_table_types">>, o))
                 ELSE ExportReader("ConnectionGetTableTypes", args, pre, o,
                                   <<"get_table_types">>, out)
       /\ UNCHANGED <<dbSlot, connSlot, stmtSlot, heap>>

connection_commit(connection, error) ==
    LET args  == [connection |-> connection, error |-> error]
        pre   == Pre(connSlot, connection)
        inner == try_unwrap(connSlot, connection)
    IN /\ pc = "caller"
       /\ IF ~inner.ok
          THEN Fail("ConnectionCommit", args, pre, inner.err, <<>>)
          ELSE \E o \in ImplOutcomes :
                 ImplDone("ConnectionCommit", args, pre, o, <<"commit">>)
       /\ UNCHANGED <<dbSlot, connSlot, stmtSlot, heap>>

connection_rollback(connection, error) ==
    LET args  == [connection |-> connection, error |-> error]
        pre   == Pre(connSlot, connection)
        inner == try_unwrap(connSlot, connection)
    IN /\ pc = "caller"
       /\ IF ~inner.ok
          THEN Fail("ConnectionRollback", args, pre, inner.err, <<>>)
          ELSE \E o \in ImplOutcomes :
                 ImplDone("ConnectionRollback", args, pre, o, <<"rollback">>)
       /\ UNCHANGED <<dbSlot, connSlot, stmtSlot, heap>>

\* What an implementation operation that produces a schema can do: "BadSchema" is a
\* success whose schema FFI_ArrowSchema::try_from cannot export.
SchemaOutcomes == ImplOutcomes \cup {"BadSchema"}

connection_get_table_schema(connection, catalog, db_schema, table_name, out_schema, error) ==
    LET op    == "ConnectionGetTableSchema"
        args  == [connection |-> connection, catalog |-> catalog, db_schema |-> db_schema,
                  table_name |-> table_name, out_schema |-> out_schema, error |-> error]
        pre   == Pre(connSlot, connection)
        inner == try_unwrap(connSlot, connection)
        cat   == get_maybe_str(catalog)
        sch   == get_maybe_str(db_schema)
        tab   == get_maybe_str(table_name)
    IN /\ pc = "caller"
       /\ IF ~inner.ok THEN Fail(op, args, pre, inner.err, <<>>)
          ELSE IF is_null(out_schema)
          THEN Return(op, args, pre, "InvalidArguments", <<>>, {},
                      set_message(error, "Passed nullptr to schema in GetTableSchema."))
          ELSE IF ~cat.ok THEN Fail(op, args, pre, cat.err, <<>>)
          ELSE IF ~sch.ok THEN Fail(op, args, pre, sch.err, <<>>)
          ELSE IF ~tab.ok THEN Fail(op, args, pre, tab.err, <<>>)
          ELSE IF tab.val = None
          THEN Return(op, args, pre, "InvalidArguments", <<>>, {},
                      set_message(error, "Passed nullptr to table_name in GetTableSchema."))
          ELSE \E o \in SchemaOutcomes :
                 LET impl == Called(<<"get_table_schema", cat.val, sch.val, tab.val>>, o)
                 IN IF o = "Panic" THEN Panicked(op, args, pre, impl)
                    ELSE IF o = "BadSchema" THEN Fail(op, args, pre, ArrowError, impl)
                    ELSE IF o # "Ok" THEN Fail(op, args, pre, ImplError(o), impl)
                    ELSE Return(op, args, pre, "Ok", impl, {"schema"}, NoMsg)
       /\ UNCHANGED <<dbSlot, connSlot, stmtSlot, heap>>

\* ------------------------------------------------- connection_get_objects
\* The table_type argument: a null pointer, or an array of C strings ended by a null entry.
TableTypes ==
    {[null |-> TRUE, entries |-> <<>>], [null |-> FALSE, entries |-> <<>>],
     [null |-> FALSE, entries |-> <<"a">>], [null |-> FALSE, entries |-> <<BadUtf8>>]}
Depths == {"All"}

\* Lines 431-440: the handle and the four filters are decoded, then the loop is entered
connection_get_objects(connection, depth, catalog, db_schema, table_name, table_type, column_name, out, error) ==
    LET op    == "ConnectionGetObjects"
        args  == [connection |-> connection, depth |-> depth, catalog |-> catalog,
                  db_schema |-> db_schema, table_name |-> table_name,
                  table_type |-> table_type, column_name |-> column_name, out |-> out,
                  error |-> error]
        pre   == Pre(connSlot, connection)
        inner == try_unwrap(connSlot, connection)
        cat   == get_maybe_str(catalog)
        sch   == get_maybe_str(db_schema)
        tab   == get_maybe_str(table_name)
        col   == get_maybe_str(column_name)
    IN /\ pc = "caller"
       /\ IF ~inner.ok THEN Fail(op, args, pre, inner.err, <<>>)
          ELSE IF ~cat.ok THEN Fail(op, args, pre, cat.err, <<>>)
          ELSE IF ~sch.ok THEN Fail(op, args, pre, sch.err, <<>>)
          ELSE IF ~tab.ok THEN Fail(op, args, pre, tab.err, <<>>)
          ELSE IF ~col.ok THEN Fail(op, args, pre, col.err, <<>>)
          ELSE /\ pc' = "get_objects"
               /\ frame' = [op |-> op, args |-> args, pre |-> pre, catalog |-> cat.val,
                            db_schema |-> sch.val, table_name |-> tab.val,
                            column_name |-> col.val, i |-> 0, table_type_vec |-> <<>>,
                            turn |-> 0]
               /\ UNCHANGED last
       /\ UNCHANGED <<dbSlot, connSlot, stmtSlot, heap>>

\* table_type.offset(i).as_ref(): None for a null array, else the entry at index i
\* (the entry after the last string is the terminating null pointer)
table_type_entry(table_type, i) ==
    IF table_type.null THEN None
    ELSE IF i < Len(table_type.entries) THEN table_type.entries[i + 1]
    ELSE NullStr

\* The index the next iteration of the loop looks at: `let i = 0;` is never changed
next_i(i) == i

\* Lines 441-446: one iteration of the while-let loop.  frame.turn is the parity of the
\* iterations run so far: the control passing through the loop body, which none of the
\* program's variables records when the entry read is the null pointer.
connection_get_objects_loop ==
    /\ pc = "get_objects"
    /\ LET ptr == table_type_entry(frame.args.table_type, frame.i)
       IN /\ ptr # None
          /\ IF ptr = NullStr
             THEN /\ frame' = [frame EXCEPT !.i = next_i(@), !.turn = 1 - @]
                  /\ UNCHANGED <<pc, last>>
             ELSE \E s \in CStr_to_str(ptr) :
                    IF ~s.ok THEN Fail(frame.op, frame.args, frame.pre, s.err, <<>>)
                    ELSE IF Len(frame.table_type_vec) >= MaxPush
                    THEN \* Vec::push cannot allocate: the process is aborted
                         Return(frame.op, frame.args, frame.pre, "Abort", <<>>, {}, NoMsg)
                    ELSE /\ frame' = [frame EXCEPT !.i = next_i(@), !.turn = 1 - @,
                                                   !.table_type_vec = Append(@, s.val)]
                         /\ UNCHANGED <<pc, last>>
    /\ UNCHANGED <<dbSlot, connSlot, stmtSlot, heap>>

\* Lines 448-461: the loop is left, get_objects is called and its reader exported
connection_get_objects_finish ==
    /\ pc = "get_objects"
    /\ table_type_entry(frame.args.table_type, frame.i) = None
    /\ \E o \in ImplOutcomes :
         ExportReader(frame.op, frame.args, frame.pre, o,
                      <<"get_objects", frame.args.depth, frame.catalog, frame.db_schema,
                           frame.table_name, frame.table_type_vec, frame.column_name>>,
                      frame.args.out)
    /\ UNCHANGED <<dbSlot, connSlot, stmtSlot, heap>>

\* ------------------------------------------------- Statement (accessors)
\* What execute() can do: "NoResult" is a success without a result reader
ExecOutcomes == ImplOutcomes \cup {"NoResult"}

\* Mutant of execute_query_outputs: the stream is exported without the test of out
execute_query_outputs_unchecked_out(out, rows_affected, o) ==
    (IF rows_affected # "null" THEN {"rows_affected"} ELSE {})
        \cup (IF o = "Ok" THEN {"stream"} ELSE {})

\* Mutant of execute_query_outputs: the row count is written without the test of
\* rows_affected
execute_query_outputs_unchecked_rows(out, rows_affected, o) ==
    {"rows_affected"} \cup (IF out # "null" /\ o = "Ok" THEN {"stream"} ELSE {})

\* Lines 670-679: the outputs a successful execute() (outcome o) is written to
execute_query_outputs(out, rows_affected, o) ==
    (IF rows_affected # "null" THEN {"rows_affected"} ELSE {})
        \cup (IF out # "null" /\ o = "Ok" THEN {"stream"} ELSE {})

statement_execute_query(statement, out, rows_affected, error) ==
    LET op    == "StatementExecuteQuery"
        args  == [statement |-> statement, out |-> out, rows_affected |-> rows_affected,
                  error |-> error]
        pre   == Pre(stmtSlot, statement)
        inner == try_unwrap_mut(stmtSlot, statement)
        impl(r) == Called(<<"execute">>, r)
    IN /\ pc = "caller"
       /\ IF ~inner.ok THEN Fail(op, args, pre, inner.err, <<>>)
          ELSE \E o \in ExecOutcomes :
                 IF o = "Panic" THEN Panicked(op, args, pre, impl(o))
                 ELSE IF o \notin {"Ok", "NoResult"} THEN Fail(op, args, pre, ImplError(o), impl(o))
                 ELSE Return(op, args, pre, "Ok", impl(o),
                             execute_query_outputs(out, rows_affected, o), NoMsg)
       /\ UNCHANGED <<dbSlot, connSlot, stmtSlot, heap>>

statement_prepare(statement, error) ==
    LET args  == [statement |-> statement, error |-> error]
        pre   == Pre(stmtSlot, statement)
        inner == try_unwrap_mut(stmtSlot, statement)
    IN /\ pc = "caller"
       /\ IF ~inner.ok THEN Fail("StatementPrepare", args, pre, inner.err, <<>>)
          ELSE \E o \in ImplOutcomes :
                 ImplDone("StatementPrepare", args, pre, o, <<"prepare">>)
       /\ UNCHANGED <<dbSlot, connSlot, stmtSlot, heap>>

statement_set_sql_query(statement, query, error) ==
    LET args  == [statement |-> statement, query |-> query, error |-> error]
        pre   == Pre(stmtSlot, statement)
        inner == try_unwrap_mut(stmtSlot, statement)
        q     == get_maybe_str(query)
    IN /\ pc = "caller"
       /\ IF ~inner.ok THEN Fail("StatementSetSqlQuery", args, pre, inner.err, <<>>)
          ELSE IF ~q.ok THEN Fail("StatementSetSqlQuery", args, pre, q.err, <<>>)
          ELSE \E o \in ImplOutcomes :
                 ImplDone("StatementSetSqlQuery", args, pre, o,
                          <<"set_sql_query", unwrap_or_empty(q.val)>>)
       /\ UNCHANGED <<dbSlot, connSlot, stmtSlot, heap>>

statement_set_substrait_plan(statement, plan, error) ==
    LET args  == [statement |-> statement, plan |-> plan, error |-> error]
        pre   == Pre(stmtSlot, statement)
        inner == try_unwrap_mut(stmtSlot, statement)
    IN /\ pc = "caller"
       /\ IF ~inner.ok THEN Fail("StatementSetSubstraitPlan", args, pre, inner.err, <<>>)
          ELSE \E readable \in from_raw_parts(plan) :
                 IF ~readable
                 THEN Return("StatementSetSubstraitPlan", args, pre, "Segfault",
                             Called(<<"set_substrait_plan">>, "Segfault"), {}, NoMsg)
                 ELSE \E o \in ImplOutcomes :
                        ImplDone("StatementSetSubstraitPlan", args, pre, o,
                                 <<"set_substrait_plan">>)
       /\ UNCHANGED <<dbSlot, connSlot, stmtSlot, heap>>

\* make_array_from_raw(values, schema): an error for a null pointer or data that cannot
\* be imported ("bad")
ArrayPtrs == {"null", "valid", "bad"}
make_array_from_raw(values, schema) ==
    IF values = "valid" /\ schema = "valid" THEN Ok("array") ELSE Err(ArrowError)

statement_bind(statement, values, schema, error) ==
    LET args  == [statement |-> statement, values |-> values, schema |-> schema,
                  error |-> error]
        pre   == Pre(stmtSlot, statement)
        inner == try_unwrap_mut(stmtSlot, statement)
        array == make_array_from_raw(values, schema)
    IN /\ pc = "caller"
       /\ IF ~inner.ok THEN Fail("StatementBind", args, pre, inner.err, <<>>)
          ELSE IF ~array.ok THEN Fail("StatementBind", args, pre, array.err, <<>>)
          ELSE \E o \in ImplOutcomes :
                 ImplDone("StatementBind", args, pre, o, <<"bind_data">>)
       /\ UNCHANGED <<dbSlot, connSlot, stmtSlot, heap>>

\* ArrowArrayStreamReader::from_raw(stream_ptr): an error for a stream that cannot be
\* imported ("bad")
ArrowArrayStreamReader_from_raw(stream_ptr) ==
    IF stream_ptr = "valid" THEN Ok("reader") ELSE Err(ArrowError)

\* Mutant of statement_bind_stream: the stream pointer is imported without a null test
statement_bind_stream_unchecked(statement, stream_ptr, error) ==
    LET op    == "StatementBindStream"
        args  == [statement |-> statement, stream_ptr |-> stream_ptr, error |-> error]
        pre   == Pre(stmtSlot, statement)
        inner == try_unwrap_mut(stmtSlot, statement)
        reader == ArrowArrayStreamReader_from_raw(stream_ptr)
    IN /\ pc = "caller"
       /\ IF ~inner.ok THEN Fail(op, args, pre, inner.err, <<>>)
          ELSE IF ~reader.ok THEN Fail(op, args, pre, reader.err, <<>>)
          ELSE \E o \in ImplOutcomes : ImplDone(op, args, pre, o, <<"bind_stream">>)
       /\ UNCHANGED <<dbSlot, connSlot, stmtSlot, heap>>

statement_bind_stream(statement, stream_ptr, error) ==
    LET op    == "StatementBindStream"
        args  == [statement |-> statement, stream_ptr |-> stream_ptr, error |-> error]
        pre   == Pre(stmtSlot, statement)
        inner == try_unwrap_mut(stmtSlot, statement)
        reader == ArrowArrayStreamReader_from_raw(stream_ptr)
    IN /\ pc = "caller"
       /\ IF ~inner.ok THEN Fail(op, args, pre, inner.err, <<>>)
          ELSE IF stream_ptr = "null"
          THEN Return(op, args, pre, "InvalidArguments", <<>>, {},
                      set_message(error, "Passed nullptr to stream in BindStream."))
          ELSE IF ~reader.ok THEN Fail(op, args, pre, reader.err, <<>>)
          ELSE \E o \in ImplOutcomes : ImplDone(op, args, pre, o, <<"bind_stream">>)
       /\ UNCHANGED <<dbSlot, connSlot, stmtSlot, heap>>

statement_get_parameter_schema(statement, out_schema, error) ==
    LET op    == "StatementGetParameterSchema"
        args  == [statement |-> statement, out_schema |-> out_schema, error |-> error]
        pre   == Pre(stmtSlot, statement)
        inner == try_unwrap(stmtSlot, statement)
        impl(r) == Called(<<"get_param_schema">>, r)
    IN /\ pc = "caller"
       /\ IF ~inner.ok THEN Fail(op, args, pre, inner.err, <<>>)
          ELSE IF is_null(out_schema)
          THEN Return(op, args, pre, "InvalidArguments", <<>>, {},
                      set_message(error, "Passed nullptr to schema in GetParameterSchema."))
          ELSE \E o \in SchemaOutcomes :
                 IF o = "Panic" THEN Panicked(op, args, pre, impl(o))
                 ELSE IF o = "BadSchema" THEN Fail(op, args, pre, ArrowError, impl(o))
                 ELSE IF o # "Ok" THEN Fail(op, args, pre, ImplError(o), impl(o))
                 ELSE Return(op, args, pre, "Ok", impl(o), {"schema"}, NoMsg)
       /\ UNCHANGED <<dbSlot, connSlot, stmtSlot, heap>>

statement_set_option(statement, key, value, error) ==
    LET args  == [statement |-> statement, key |-> key, value |-> value, error |-> error]
        pre   == Pre(stmtSlot, statement)
        inner == try_unwrap_mut(stmtSlot, statement)
        k     == get_maybe_str(key)
        v     == get_maybe_str(value)
    IN /\ pc = "caller"
       /\ IF ~inner.ok THEN Fail("StatementSetOption", args, pre, inner.err, <<>>)
          ELSE IF ~k.ok THEN Fail("StatementSetOption", args, pre, k.err, <<>>)
          ELSE IF ~v.ok THEN Fail("StatementSetOption", args, pre, v.err, <<>>)
          ELSE \E o \in ImplOutcomes :
                 ImplDone("StatementSetOption", args, pre, o,
                          <<"set_option", unwrap_or_empty(k.val), unwrap_or_empty(v.val)>>)
       /\ UNCHANGED <<dbSlot, connSlot, stmtSlot, heap>>

statement_execute_partitions(statement, out_schema, out_partitions, rows_affected, error) ==
    LET op    == "StatementExecutePartitions"
        args  == [statement |-> statement, out_schema |-> out_schema,
                  out_partitions |-> out_partitions, rows_affected |-> rows_affected,
                  error |-> error]
        pre   == Pre(stmtSlot, statement)
        inner == try_unwrap_mut(stmtSlot, statement)
        impl(r) == Called(<<"execute_partitioned">>, r)
        rows  == IF rows_affected # "null" THEN {"rows_affected"} ELSE {}
    IN /\ pc = "caller"
       /\ IF ~inner.ok THEN Fail(op, args, pre, inner.err, <<>>)
          ELSE IF is_null(out_schema)
          THEN Return(op, args, pre, "InvalidArguments", <<>>, {},
                      set_message(error, "Passed nullptr to schema in ExecutePartitions."))
          ELSE IF is_null(out_partitions)
          THEN Return(op, args, pre, "InvalidArguments", <<>>, {},
                      set_message(error, "Passed nullptr to partitions in ExecutePartitions."))
          ELSE \E o \in SchemaOutcomes :
                 IF o = "Panic" THEN Panicked(op, args, pre, impl(o))
                 ELSE IF o = "BadSchema" THEN Fail(op, args, pre, ArrowError, impl(o))
                 ELSE IF o # "Ok" THEN Fail(op, args, pre, ImplError(o), impl(o))
                 ELSE Return(op, args, pre, "Ok", impl(o),
                             {"schema", "partitions"} \cup rows, NoMsg)
       /\ UNCHANGED <<dbSlot, connSlot, stmtSlot, heap>>

\* ----------------------------------------------------------- BatchReader
\* Number of table types get_table_types() returns at most
MaxTypes == 3
\* Number of times the consumer pulls from the stream
MaxPulls == 3
TypeNames == {"TABLE", "VIEW"}
\* The lists of table types get_table_types() can return
TableTypeLists == UNION {[1..n -> TypeNames] : n \in 0..MaxTypes}

\* StringArray::from(table_types): one Utf8 value per string, none of them null
StringArray_from(table_types) ==
    [type |-> "Utf8", values |-> table_types, null_count |-> 0]

\* Schema::new(vec![Field::new("table_type", DataType::Utf8, false)])
table_type_schema == << [name |-> "table_type", type |-> "Utf8", nullable |-> FALSE] >>

\* RecordBatch::try_new(schema, columns): one column per field, of the field's type, all
\* of one length, without nulls where the field is not nullable
RecordBatch_try_new(schema, columns) ==
    IF /\ Len(schema) = Len(columns)
       /\ \A i \in 1..Len(schema) :
            /\ columns[i].type = schema[i].type
            /\ Len(columns[i].values) = Len(columns[1].values)
            /\ (~schema[i].nullable => columns[i].null_count = 0)
    THEN Ok([schema |-> schema, columns |-> columns,
             num_rows |-> IF Len(columns) = 0 THEN 0 ELSE Len(columns[1].values)])
    ELSE Err(ArrowError)

\* Option<RecordBatch>: Some(batch), and None
SomeBatch(batch) == [some |-> TRUE, val |-> batch]
NoBatch == [some |-> FALSE]

\* BatchReader::new(batch)
BatchReader_new(batch) == [batch |-> SomeBatch(batch), schema |-> batch.schema]

\* Mutant of BatchReader_next: the batch is cloned and left in the reader
BatchReader_next_cloned(r) ==
    [item |-> r.batch, reader |-> r]

\* Iterator::next of BatchReader: self.batch.take().map(|b| Ok(b)); [item, reader], the
\* item being Some(batch) or None
BatchReader_next(r) ==
    [item |-> r.batch, reader |-> [r EXCEPT !.batch = NoBatch]]

\* RecordBatchReader::schema of BatchReader
BatchReader_schema(r) == r.schema

\* No stream has been handed to the caller
NoReader == [made |-> FALSE]

\* The end of the stream, as the consumer of the exported stream sees it
EndOfStream == [end |-> TRUE]
\* get_next of the exported stream: the next item of the reader, a None being the end
get_next(item) == IF item.some THEN [end |-> FALSE, batch |-> item.val] ELSE EndOfStream
\* get_schema of the exported stream: the schema the reader reports
get_schema(r) == BatchReader_schema(r)

\* What the consumer of a stream leaves alone: everything but the reader
StreamFrame == <<dbSlot, connSlot, stmtSlot, heap, pc, frame, last, driver, thread>>

\* Lines 551-566 on an initialized Connection whose get_table_types() returns table_types:
\* the reader that is built and exported to the caller's stream record
get_table_types_stream(table_types) ==
    LET batch == RecordBatch_try_new(table_type_schema,
                                     << StringArray_from(table_types) >>)
    IN /\ ~batchReader.made
       /\ batch.ok
       /\ batchReader' = [made |-> TRUE, table_types |-> table_types,
                          r |-> BatchReader_new(batch.val), items |-> <<>>,
                          schemas |-> {}]
       /\ UNCHANGED StreamFrame

\* The consumer pulls the next batch from the stream
stream_get_next ==
    /\ batchReader.made
    /\ Len(batchReader.items) < MaxPulls
    /\ LET n == BatchReader_next(batchReader.r)
       IN batchReader' = [batchReader EXCEPT !.r = n.reader,
                                             !.items = Append(@, get_next(n.item))]
    /\ UNCHANGED StreamFrame

\* The consumer asks the stream for its schema; the answer is kept with the number of
\* pulls made before it
stream_get_schema ==
    /\ batchReader.made
    /\ batchReader' = [batchReader EXCEPT
                         !.schemas = @ \cup {[pulls |-> Len(batchReader.items),
                                              schema |-> get_schema(batchReader.r)]}]
    /\ UNCHANGED StreamFrame

\* --------------------------------------------- Connections on threads
\* The caller's threads: thread 0 owns the Database handle, thread c the Connection
\* handle c.  A thread makes one call at a time on its own handle.
Threads == {0} \cup ConnHandles
Idle == [pc |-> "idle", op |-> "none", db |-> NULL, old |-> 0, status |-> "none"]
\* No call is in flight on any thread
NoThreads == [t \in Threads |-> Idle]

\* The threads inside ConnectionInit, which reads the Database handle
InConnectionInit == {t \in Threads : thread[t].op = "ConnectionInit" /\ thread[t].pc # "idle"}

\* Arc::clone: one atomic increment of the count
Arc_clone(h, a) == clone_rc(h, a)
\* Arc::drop, first half: one atomic decrement of the count, which returns the old value
Arc_fetch_sub(h, a) == [old |-> h.strong[a], heap |-> [h EXCEPT !.strong[a] = @ - 1]]

\* Mutant of last_reference: the count is read again after the decrement
last_reference_reread(old, now) == now = 0

\* Arc::drop, the test between its halves: the thread whose decrement returned 1 held
\* the last reference (old is what its decrement returned, now the count at present)
last_reference(old, now) == old = 1

\* Arc::drop, second half, for the thread that held the last reference: the value is
\* destroyed
Arc_drop_slow(h, a) == drop_value(h, a)

\* The end of a call on thread t
ThreadReturns(t, status) ==
    thread' = [thread EXCEPT ![t] = [Idle EXCEPT !.status = status]]

\* What a call on a thread leaves alone: the Statement handles and the caller between
\* calls of the sequential entry points
ThreadFrame == <<stmtSlot, pc, frame, last, driver, batchReader>>

\* connection_init on thread c, line 364-365: both handles are unwrapped
thread_connection_init(c, database) ==
    LET inner == try_unwrap(connSlot, c)
        db    == try_unwrap(dbSlot, database)
    IN /\ thread[c].pc = "idle"
       /\ thread[0].pc = "idle"
       /\ IF ~inner.ok THEN ThreadReturns(c, status_code(inner.err))
          ELSE IF ~db.ok THEN ThreadReturns(c, status_code(db.err))
          ELSE thread' = [thread EXCEPT ![c] = [pc |-> "clone", op |-> "ConnectionInit",
                                                db |-> db.val, old |-> 0,
                                                status |-> "none"]]
       /\ UNCHANGED <<heap, dbSlot, connSlot>>
       /\ UNCHANGED ThreadFrame

\* connection_init on thread c, line 367: db.clone()
thread_arc_clone(c) ==
    /\ thread[c].pc = "clone"
    /\ heap' = Arc_clone(heap, thread[c].db)
    /\ thread' = [thread EXCEPT ![c].pc = "init"]
    /\ UNCHANGED <<dbSlot, connSlot>>
    /\ UNCHANGED ThreadFrame

\* connection_init on thread c, line 367: inner.init(..) with outcome o.  A Connection
\* that is initialized keeps the Arc it is given and drops the one of an earlier init; a
\* failed init drops the Arc it was given.
thread_impl_init(c, o) ==
    LET conn == connSlot[c]
        old  == heap.parent[conn]
        new  == thread[c].db
    IN /\ thread[c].pc = "init"
       /\ IF o = "Ok"
          THEN /\ heap' = [heap EXCEPT !.parent[conn] = new]
               /\ IF old = NULL THEN ThreadReturns(c, "Ok")
                  ELSE thread' = [thread EXCEPT ![c].pc = "arc_dec", ![c].db = old,
                                                ![c].status = "Ok"]
          ELSE /\ UNCHANGED heap
               /\ thread' = [thread EXCEPT ![c].pc = "arc_dec",
                                           ![c].status = status_code(ImplError(o))]
       /\ UNCHANGED <<dbSlot, connSlot>>
       /\ UNCHANGED ThreadFrame

\* connection_release on thread c, lines 183-185: Box::from_raw takes the box, the
\* handle's Rc is dropped and with it the Connection, whose Arc is about to be dropped
thread_connection_release(c) ==
    LET conn == connSlot[c]
    IN /\ thread[c].pc = "idle"
       /\ IF conn = NULL
          THEN /\ ThreadReturns(c, "Ok")
               /\ UNCHANGED heap
          ELSE /\ heap' = [heap EXCEPT !.box[conn] = "freed", !.strong[conn] = 0,
                                       !.val[conn] = "dropped", !.parent[conn] = NULL]
               /\ thread' = [thread EXCEPT ![c] =
                               [pc |-> IF heap.parent[conn] = NULL THEN "set_null"
                                                                   ELSE "arc_dec",
                                op |-> "ConnectionRelease", db |-> heap.parent[conn],
                                old |-> 0, status |-> "none"]]
       /\ UNCHANGED <<dbSlot, connSlot>>
       /\ UNCHANGED ThreadFrame

\* database_release on thread 0, lines 183-185: Box::from_raw takes the box, whose Arc
\* is about to be dropped.  The caller does not release the Database handle while a
\* ConnectionInit is reading it.
thread_database_release(database) ==
    LET db == dbSlot[database]
    IN /\ thread[0].pc = "idle"
       /\ InConnectionInit = {}
       /\ IF db = NULL
          THEN /\ ThreadReturns(0, "Ok")
               /\ UNCHANGED heap
          ELSE /\ heap' = [heap EXCEPT !.box[db] = "freed"]
               /\ thread' = [thread EXCEPT ![0] =
                               [pc |-> "arc_dec", op |-> "DatabaseRelease", db |-> db,
                                old |-> 0, status |-> "none"]]
       /\ UNCHANGED <<dbSlot, connSlot>>
       /\ UNCHANGED ThreadFrame

\* The Arc held by thread t is dropped: the atomic decrement
thread_arc_fetch_sub(t) ==
    /\ thread[t].pc = "arc_dec"
    /\ LET r == Arc_fetch_sub(heap, thread[t].db)
       IN /\ heap' = r.heap
          /\ thread' = [thread EXCEPT ![t].pc = "arc_dropped", ![t].old = r.old]
    /\ UNCHANGED <<dbSlot, connSlot>>
    /\ UNCHANGED ThreadFrame

\* The Arc held by thread t is dropped: the Database is destroyed by the thread that held
\* the last reference; the call then goes on (a release) or returns (an init)
thread_arc_drop_slow(t) ==
    /\ thread[t].pc = "arc_dropped"
    /\ heap' = IF last_reference(thread[t].old, heap.strong[thread[t].db])
               THEN Arc_drop_slow(heap, thread[t].db) ELSE heap
    /\ IF thread[t].op = "ConnectionInit" THEN ThreadReturns(t, thread[t].status)
       ELSE thread' = [thread EXCEPT ![t].pc = "set_null", ![t].db = NULL, ![t].old = 0]
    /\ UNCHANGED <<dbSlot, connSlot>>
    /\ UNCHANGED ThreadFrame

\* *_release on thread t, line 187: the dangling pointer is removed from the handle
thread_set_null(t) ==
    /\ thread[t].pc = "set_null"
    /\ IF t = 0 THEN /\ dbSlot' = [d \in DbHandles |-> NULL]
                     /\ UNCHANGED connSlot
       ELSE /\ connSlot' = [connSlot EXCEPT ![t] = NULL]
            /\ UNCHANGED dbSlot
    /\ ThreadReturns(t, "Ok")
    /\ UNCHANGED heap
    /\ UNCHANGED ThreadFrame


\* ---------------------------------------------------------- Driver Table
\* The function pointers of FFI_AdbcDriver that init_adbc_driver fills with a shim
DriverEntries ==
    {"DatabaseInit", "DatabaseNew", "DatabaseRelease", "DatabaseSetOption",
     "ConnectionCommit", "ConnectionGetInfo", "ConnectionInit", "ConnectionRelease",
     "ConnectionGetObjects", "ConnectionGetTableSchema", "ConnectionGetTableTypes",
     "ConnectionNew", "ConnectionReadPartition", "ConnectionRollback",
     "ConnectionSetOption", "StatementNew", "StatementBind", "StatementBindStream",
     "StatementExecutePartitions", "StatementExecuteQuery", "StatementGetParameterSchema",
     "StatementPrepare", "StatementRelease", "StatementSetOption", "StatementSetSqlQuery",
     "StatementSetSubstraitPlan"}
DriverSlots == {"private_data", "private_manager", "release"} \cup DriverEntries

\* init_adbc_driver(): the two private pointers null, every function pointer Some(shim)
init_adbc_driver ==
    [s \in DriverSlots |-> IF s \in {"private_data", "private_manager"} THEN "null" ELSE "Some"]

\* The pointers to a driver table the caller can pass: null, or the table it holds
DriverPtrs == {NULL, 1}

\* Mutant of driver_release_written: the whole table is cleared
driver_release_written_all_cleared(table, driver_ptr) ==
    IF driver_ptr # NULL
    THEN [s \in DriverSlots |-> IF table[s] = "Some" THEN None ELSE table[s]]
    ELSE table

\* Lines 108-110: `if let Some(driver) = driver.as_mut() { driver.release = None; }`
driver_release_written(table, driver_ptr) ==
    IF driver_ptr # NULL THEN [table EXCEPT !["release"] = None] ELSE table

release_adbc_driver(driver_ptr, error) ==
    LET args == [driver |-> driver_ptr, error |-> error]
        pre  == IF driver_ptr = NULL THEN "null" ELSE driver["release"]
    IN /\ pc = "caller"
       /\ driver' = driver_release_written(driver, driver_ptr)
       /\ Return("DriverRelease", args, pre, "Ok", <<>>, {}, NoMsg)
       /\ UNCHANGED <<dbSlot, connSlot, stmtSlot, heap>>

\* ----------------------------------------------------------- the system
DbPtrs == DbHandles \cup {NULL}
ConnPtrs == ConnHandles \cup {NULL}
StmtPtrs == StmtHandles \cup {NULL}
\* The optional filters of GetObjects / GetTableSchema
Filters == {NullStr, "", BadUtf8}

Init ==
    /\ dbSlot = [d \in DbHandles |-> NULL]
    /\ connSlot = [c \in ConnHandles |-> NULL]
    /\ stmtSlot = [s \in StmtHandles |-> NULL]
    /\ heap = EmptyHeap
    /\ pc = "caller"
    /\ frame = NoFrame
    /\ last = NoCall
    /\ driver = init_adbc_driver
    /\ thread = NoThreads
    /\ batchReader = NoReader

DriverRelease ==
    /\ pc = "caller"
    /\ UNCHANGED <<thread, batchReader>>
    /\ \E t \in DriverPtrs, e \in Ptrs :
         release_adbc_driver(t, e)
DatabaseNew ==
    /\ pc = "caller"
    /\ UNCHANGED <<driver, thread, batchReader>>
    /\ \E d \in DbPtrs, e \in Ptrs :
         database_new(d, e)
DatabaseInit ==
    /\ pc = "caller"
    /\ UNCHANGED <<driver, thread, batchReader>>
    /\ \E d \in DbPtrs, e \in Ptrs, o \in ImplOutcomes :
         database_init(d, e, o)
DatabaseSetOption ==
    /\ pc = "caller"
    /\ UNCHANGED <<driver, thread, batchReader>>
    /\ \E d \in DbPtrs, k \in CStrs, v \in CStrs, e \in Ptrs :
         database_set_option(d, k, v, e)
DatabaseRelease ==
    /\ pc = "caller"
    /\ UNCHANGED <<driver, thread, batchReader>>
    /\ \E d \in DbPtrs :
         database_release(d)
ConnectionNew ==
    /\ pc = "caller"
    /\ UNCHANGED <<driver, thread, batchReader>>
    /\ \E c \in ConnPtrs, e \in Ptrs :
         connection_new(c, e)
ConnectionInit ==
    /\ pc = "caller"
    /\ UNCHANGED <<driver, thread, batchReader>>
    /\ \E c \in ConnPtrs, d \in DbPtrs, e \in Ptrs, o \in ImplOutcomes :
         connection_init(c, d, e, o)
ConnectionSetOption ==
    /\ pc = "caller"
    /\ UNCHANGED <<driver, thread, batchReader>>
    /\ \E c \in ConnPtrs, k \in CStrs, v \in CStrs, e \in Ptrs :
         connection_set_option(c, k, v, e)
ConnectionRelease ==
    /\ pc = "caller"
    /\ UNCHANGED <<driver, thread, batchReader>>
    /\ \E c \in ConnPtrs :
         connection_release(c)
ConnectionGetInfo ==
    /\ pc = "caller"
    /\ UNCHANGED <<driver, thread, batchReader>>
    /\ \E c \in ConnPtrs, p \in Ptrs, out \in Ptrs, e \in Ptrs :
         connection_get_info(c, p, out, e)
ConnectionGetObjects ==
    /\ pc = "caller"
    /\ UNCHANGED <<driver, thread, batchReader>>
    /\ \E c \in ConnPtrs, depth \in Depths, cat \in Filters, sch \in {NullStr, ""}, tab \in Filters, tt \in TableTypes :
         \E col \in {NullStr, ""}, out \in Ptrs, e \in Ptrs :
           connection_get_objects(c, depth, cat, sch, tab, tt, col, out, e)
ConnectionGetObjectsLoop ==
    /\ connection_get_objects_loop
    /\ UNCHANGED <<driver, thread, batchReader>>
ConnectionGetObjectsFinish ==
    /\ connection_get_objects_finish
    /\ UNCHANGED <<driver, thread, batchReader>>
ConnectionGetTableSchema ==
    /\ pc = "caller"
    /\ UNCHANGED <<driver, thread, batchReader>>
    /\ \E c \in ConnPtrs, cat \in Filters, sch \in {NullStr, "a"}, tab \in CStrs, out \in Ptrs, e \in Ptrs :
         connection_get_table_schema(c, cat, sch, tab, out, e)
ConnectionGetTableTypes ==
    /\ pc = "caller"
    /\ UNCHANGED <<driver, thread, batchReader>>
    /\ \E c \in ConnPtrs, out \in Ptrs, e \in Ptrs :
         connection_get_table_types(c, out, e)
ConnectionReadPartition ==
    /\ pc = "caller"
    /\ UNCHANGED <<driver, thread, batchReader>>
    /\ \E c \in ConnPtrs, p \in Ptrs, out \in Ptrs, e \in Ptrs :
         connection_read_partition(c, p, out, e)
ConnectionCommit ==
    /\ pc = "caller"
    /\ UNCHANGED <<driver, thread, batchReader>>
    /\ \E c \in ConnPtrs, e \in Ptrs :
         connection_commit(c, e)
ConnectionRollback ==
    /\ pc = "caller"
    /\ UNCHANGED <<driver, thread, batchReader>>
    /\ \E c \in ConnPtrs, e \in Ptrs :
         connection_rollback(c, e)
StatementNew ==
    /\ pc = "caller"
    /\ UNCHANGED <<driver, thread, batchReader>>
    /\ \E c \in ConnPtrs, s \in StmtPtrs, e \in Ptrs :
         statement_new(c, s, e)
StatementRelease ==
    /\ pc = "caller"
    /\ UNCHANGED <<driver, thread, batchReader>>
    /\ \E s \in StmtPtrs :
         statement_release(s)
StatementExecuteQuery ==
    /\ pc = "caller"
    /\ UNCHANGED <<driver, thread, batchReader>>
    /\ \E s \in StmtPtrs, out \in Ptrs, rows \in Ptrs, e \in Ptrs :
         statement_execute_query(s, out, rows, e)
StatementPrepare ==
    /\ pc = "caller"
    /\ UNCHANGED <<driver, thread, batchReader>>
    /\ \E s \in StmtPtrs, e \in Ptrs :
         statement_prepare(s, e)
StatementSetSqlQuery ==
    /\ pc = "caller"
    /\ UNCHANGED <<driver, thread, batchReader>>
    /\ \E s \in StmtPtrs, q \in CStrs, e \in Ptrs :
         statement_set_sql_query(s, q, e)
StatementSetSubstraitPlan ==
    /\ pc = "caller"
    /\ UNCHANGED <<driver, thread, batchReader>>
    /\ \E s \in StmtPtrs, p \in Ptrs, e \in Ptrs :
         statement_set_substrait_plan(s, p, e)
StatementBind ==
    /\ pc = "caller"
    /\ UNCHANGED <<driver, thread, batchReader>>
    /\ \E s \in StmtPtrs, v \in ArrayPtrs, sch \in ArrayPtrs, e \in Ptrs :
         statement_bind(s, v, sch, e)
StatementBindStream ==
    /\ pc = "caller"
    /\ UNCHANGED <<driver, thread, batchReader>>
    /\ \E s \in StmtPtrs, p \in ArrayPtrs, e \in Ptrs :
         statement_bind_stream(s, p, e)
StatementGetParameterSchema ==
    /\ pc = "caller"
    /\ UNCHANGED <<driver, thread, batchReader>>
    /\ \E s \in StmtPtrs, out \in Ptrs, e \in Ptrs :
         statement_get_parameter_schema(s, out, e)
StatementSetOption ==
    /\ pc = "caller"
    /\ UNCHANGED <<driver, thread, batchReader>>
    /\ \E s \in StmtPtrs, k \in CStrs, v \in CStrs, e \in Ptrs :
         statement_set_option(s, k, v, e)
StatementExecutePartitions ==
    /\ pc = "caller"
    /\ UNCHANGED <<driver, thread, batchReader>>
    /\ \E s \in StmtPtrs, sch \in Ptrs, parts \in Ptrs, rows \in Ptrs, e \in Ptrs :
         statement_execute_partitions(s, sch, parts, rows, e)

Next ==
    \/ DriverRelease
    \/ DatabaseNew
    \/ DatabaseInit
    \/ DatabaseSetOption
    \/ DatabaseRelease
    \/ ConnectionNew
    \/ ConnectionInit
    \/ ConnectionSetOption
    \/ ConnectionRelease
    \/ ConnectionGetInfo
    \/ ConnectionGetObjects
    \/ ConnectionGetObjectsLoop
    \/ ConnectionGetObjectsFinish
    \/ ConnectionGetTableSchema
    \/ ConnectionGetTableTypes
    \/ ConnectionReadPartition
    \/ ConnectionCommit
    \/ ConnectionRollback
    \/ StatementNew
    \/ StatementRelease
    \/ StatementExecuteQuery
    \/ StatementPrepare
    \/ StatementSetSqlQuery
    \/ StatementSetSubstraitPlan
    \/ StatementBind
    \/ StatementBindStream
    \/ StatementGetParameterSchema
    \/ StatementSetOption
    \/ StatementExecutePartitions
    \/ caller_resumes

Spec == Init /\ [][Next]_vars

\* A call in flight runs on: the calling thread keeps executing the shim it is in.
FairSpec == Spec /\ WF_vars(ConnectionGetObjectsLoop) /\ WF_vars(ConnectionGetObjectsFinish)

\* The state after DatabaseNew on the Database handle and ConnectionNew on every
\* Connection handle, made by one thread before the others are started
ConcurrentInit ==
    LET h0 == Box_into_raw(rc_new(EmptyHeap, 1, "Database"), 1)
        h1 == Box_into_raw(rc_new(h0, 2, "Connection"), 2)
        h2 == Box_into_raw(rc_new(h1, 3, "Connection"), 3)
    IN /\ dbSlot = [d \in DbHandles |-> 1]
       /\ connSlot = [c \in ConnHandles |-> c + 1]
       /\ stmtSlot = [s \in StmtHandles |-> NULL]
       /\ heap = h2
       /\ pc = "caller"
       /\ frame = NoFrame
       /\ last = NoCall
       /\ driver = init_adbc_driver
       /\ thread = NoThreads
       /\ batchReader = NoReader

ConcurrentNext ==
    \/ \E c \in ConnHandles, d \in DbHandles : thread_connection_init(c, d)
    \/ \E c \in ConnHandles : thread_arc_clone(c)
    \/ \E c \in ConnHandles, o \in {"Ok"} \cup ImplCodes : thread_impl_init(c, o)
    \/ \E c \in ConnHandles : thread_connection_release(c)
    \/ \E d \in DbHandles : thread_database_release(d)
    \/ \E t \in Threads : thread_arc_fetch_sub(t)
    \/ \E t \in Threads : thread_arc_drop_slow(t)
    \/ \E t \in Threads : thread_set_null(t)

ConcurrentSpec == ConcurrentInit /\ [][ConcurrentNext]_vars

\* The consumer of the stream of one ConnectionGetTableTypes call
ReaderNext ==
    \/ \E table_types \in TableTypeLists : get_table_types_stream(table_types)
    \/ stream_get_next
    \/ stream_get_schema

ReaderSpec == Init /\ [][ReaderNext]_vars

\* ------------------------------------------------------------ properties
DbOps == {"DatabaseNew", "DatabaseInit", "DatabaseSetOption", "DatabaseRelease"}
ConnOps ==
    {"ConnectionNew", "ConnectionInit", "ConnectionSetOption", "ConnectionRelease",
     "ConnectionGetInfo", "ConnectionGetObjects", "ConnectionGetTableSchema",
     "ConnectionGetTableTypes", "ConnectionReadPartition", "ConnectionCommit",
     "ConnectionRollback"}
StmtOps ==
    {"StatementNew", "StatementRelease", "StatementExecuteQuery", "StatementPrepare",
     "StatementSetSqlQuery", "StatementSetSubstraitPlan", "StatementBind",
     "StatementBindStream", "StatementGetParameterSchema", "StatementSetOption",
     "StatementExecutePartitions"}
NewOps == {"DatabaseNew", "ConnectionNew", "StatementNew"}
ReleaseOps == {"DatabaseRelease", "ConnectionRelease", "StatementRelease"}
SetOptionOps == {"DatabaseSetOption", "ConnectionSetOption", "StatementSetOption"}
AccessorOps == (DbOps \cup ConnOps \cup StmtOps) \ (NewOps \cup ReleaseOps)

\* The handle pointer a call was made on, the kind of that handle and its private_data
\* in the state whose slots are d, c and s
HandleOf(l) ==
    IF l.op \in DbOps THEN l.args.database
    ELSE IF l.op \in ConnOps THEN l.args.connection
    ELSE l.args.statement
KindOf(op) ==
    IF op \in DbOps THEN "Database" ELSE IF op \in ConnOps THEN "Connection" ELSE "Statement"
SlotOf(l, d, c, s) ==
    IF l.op \in DbOps THEN Pre(d, HandleOf(l))
    ELSE IF l.op \in ConnOps THEN Pre(c, HandleOf(l))
    ELSE Pre(s, HandleOf(l))
\* StatementNew builds a Statement only from an initialized Connection
ParentReady(l) == l.op = "StatementNew" => Pre(connSlot, l.args.connection) # NULL
NothingDestroyedTwice(h) ==
    \A a \in Addrs : h.box[a] # "double-freed" /\ h.val[a] # "double-dropped"

\* C1: every *Release returns Ok and leaves the handle's slot null; on a handle whose
\* slot is already null (never initialized, or just released) it changes neither a slot
\* nor the heap, and no value is ever destroyed twice.
Thm_C1 ==
    [][(pc = "caller" /\ last'.op \in ReleaseOps) =>
          /\ last'.status = "Ok"
          /\ pc' = "returned"
          /\ SlotOf(last', dbSlot', connSlot', stmtSlot') = NULL
          /\ NothingDestroyedTwice(heap')
          /\ (last'.pre = NULL => UNCHANGED <<dbSlot, connSlot, stmtSlot, heap>>)]_vars

\* A *Release has returned on a handle whose slot was null
Witness_C1 ==
    /\ pc = "returned"
    /\ last.op \in ReleaseOps
    /\ HandleOf(last) # NULL
    /\ last.pre = NULL

\* C2: an entry point other than *New and *Release that is given a null handle pointer
\* or a handle whose slot is null returns InvalidState, calls no implementation
\* operation and does not crash, whatever its other arguments.
Thm_C2 ==
    (/\ last.op \in AccessorOps
     /\ \/ last.pre = NULL
        \/ last.op = "ConnectionInit" /\ Pre(dbSlot, last.args.database) = NULL)
    => (pc = "returned" /\ last.status = "InvalidState" /\ last.impl = <<>>)

\* DatabaseSetOption with a null key has returned on a handle that was never initialized
Witness_C2 ==
    /\ pc = "returned"
    /\ last.op = "DatabaseSetOption"
    /\ last.args.database # NULL
    /\ last.pre = NULL
    /\ last.args.key = NullStr

\* C3: *New on an initialized handle returns InvalidState; no slot changes, the original
\* value stays boxed and alive with the references it had, and the value built by the
\* failed call is destroyed without ever being boxed.
Thm_C3 ==
    [][(pc = "caller" /\ last'.op \in NewOps /\ last'.pre # NULL) =>
          /\ last'.status = "InvalidState"
          /\ pc' = "returned"
          /\ UNCHANGED <<dbSlot, connSlot, stmtSlot>>
          /\ heap'.box[last'.pre] = "live"
          /\ heap'.val[last'.pre] = "live"
          /\ heap'.strong = heap.strong
          /\ heap'.parent = heap.parent
          /\ \A a \in Addrs : /\ (heap'.val[a] = "live") = (heap.val[a] = "live")
                              /\ (heap'.box[a] = "live") = (heap.box[a] = "live")
          /\ ParentReady(last') =>
               \E a \in Addrs : /\ heap.val[a] = "none"
                                /\ heap'.val[a] = "dropped"
                                /\ heap'.box[a] = "none"
                                /\ heap'.kind[a] = KindOf(last'.op)]_vars

\* A *New has returned on a handle that was initialized
Witness_C3 ==
    /\ pc = "returned"
    /\ last.op \in NewOps
    /\ last.pre # NULL
    /\ ParentReady(last)

\* The Connection values that hold a reference to the Database value at a
ConnectionsOf(h, a) ==
    {c \in Addrs : h.kind[c] = "Connection" /\ h.val[c] = "live" /\ h.parent[c] = a}

\* C4: a Database value that a live Connection was initialized against, or that its
\* handle still owns, is alive: DatabaseRelease does not destroy it while a Connection
\* references it, and it is never destroyed twice.
Thm_C4 ==
    \A a \in Addrs :
        heap.kind[a] = "Database" =>
            /\ (heap.box[a] = "live" \/ ConnectionsOf(heap, a) # {}) => heap.val[a] = "live"
            /\ heap.val[a] # "double-dropped"

\* DatabaseRelease has freed the handle's box while a Connection references the Database
Witness_C4 ==
    /\ pc = "returned"
    /\ last.op = "DatabaseRelease"
    /\ last.pre # NULL
    /\ heap.box[last.pre] = "freed"
    /\ heap.val[last.pre] = "live"
    /\ ConnectionsOf(heap, last.pre) # {}

\* C5 as stated: once *Release has been called on a handle, its slot stays null for ever
\* (Released is terminal).
Cx_C5 ==
    /\ \A d \in DbHandles :
         []((last.op = "DatabaseRelease" /\ last.args.database = d) => [](dbSlot[d] = NULL))
    /\ \A c \in ConnHandles :
         []((last.op = "ConnectionRelease" /\ last.args.connection = c)
                => [](connSlot[c] = NULL))
    /\ \A s \in StmtHandles :
         []((last.op = "StatementRelease" /\ last.args.statement = s)
                => [](stmtSlot[s] = NULL))

\* C5 amended: *Release leaves the slot null, and *New on a handle whose slot is null,
\* released before or not, succeeds and boxes a freshly built value in the slot.
Thm_C5 ==
    [][/\ (pc = "caller" /\ last'.op \in ReleaseOps) =>
             SlotOf(last', dbSlot', connSlot', stmtSlot') = NULL
       /\ (/\ pc = "caller"
           /\ last'.op \in NewOps
           /\ HandleOf(last') # NULL
           /\ last'.pre = NULL
           /\ ParentReady(last')) =>
             LET slot == SlotOf(last', dbSlot', connSlot', stmtSlot')
             IN /\ last'.status = "Ok"
                /\ slot # NULL
                /\ heap.val[slot] = "none"
                /\ heap'.box[slot] = "live"
                /\ heap'.val[slot] = "live"
                /\ heap'.kind[slot] = KindOf(last'.op)]_vars

\* DatabaseNew has succeeded on the database handle after its DatabaseRelease: the box
\* freed by that release is still referenced by a Connection
Witness_C5 ==
    /\ pc = "returned"
    /\ last.op = "DatabaseNew"
    /\ last.status = "Ok"
    /\ \E a \in Addrs : /\ heap.kind[a] = "Database"
                        /\ heap.box[a] = "freed"
                        /\ heap.val[a] = "live"
                        /\ a # dbSlot[last.args.database]

\* The slot p of a handle of kind k is null or points to the live box of a live value of kind k
SlotSound(p, k) ==
    p # NULL => heap.box[p] = "live" /\ heap.val[p] = "live" /\ heap.kind[p] = k

\* C6: every slot is null or points to a live boxed value of the handle's kind, no two
\* handles own the same box, every live box is owned by a handle, and nothing is
\* destroyed twice.
Thm_C6 ==
    /\ \A d \in DbHandles : SlotSound(dbSlot[d], "Database")
    /\ \A c \in ConnHandles : SlotSound(connSlot[c], "Connection")
    /\ \A s \in StmtHandles : SlotSound(stmtSlot[s], "Statement")
    /\ \A c1, c2 \in ConnHandles : c1 # c2 /\ connSlot[c1] # NULL => connSlot[c1] # connSlot[c2]
    /\ \A a \in Addrs :
         heap.box[a] = "live" =>
            \/ \E d \in DbHandles : dbSlot[d] = a
            \/ \E c \in ConnHandles : connSlot[c] = a
            \/ \E s \in StmtHandles : stmtSlot[s] = a
    /\ NothingDestroyedTwice(heap)

\* StatementRelease has destroyed a Statement while the Database and a Connection handle
\* are initialized
Witness_C6 ==
    /\ pc = "returned"
    /\ last.op = "StatementRelease"
    /\ last.pre # NULL
    /\ heap.val[last.pre] = "dropped"
    /\ \E d \in DbHandles : dbSlot[d] # NULL
    /\ \E c \in ConnHandles : connSlot[c] # NULL

\* C7 as stated: a ConnectionGetObjects call that has entered the table_type loop with a
\* non-null, null-terminated array returns to its caller.
Cx_C7 ==
    (pc = "get_objects" /\ ~frame.args.table_type.null) ~> (pc = "returned")

\* C8 as stated: when the implementation operation called by a shim panics, the shim
\* returns a failure status to its caller, with the Error Record filled if there is one.
Cx_C8 ==
    last.panicked =>
        /\ pc = "returned"
        /\ last.status \notin {"Ok"} \cup NoReturn
        /\ (last.args.error # "null" => last.msg # NoMsg)

\* C9 as stated: ConnectionGetTableSchema with a null table_name returns InvalidArguments
\* and does not call get_table_schema, whatever the other arguments.
Cx_C9 ==
    (last.op = "ConnectionGetTableSchema" /\ last.args.table_name = NullStr)
    => (pc = "returned" /\ last.status = "InvalidArguments" /\ last.impl = <<>>)

\* C9 amended: ConnectionGetTableSchema with a null table_name never calls
\* get_table_schema; it returns InvalidArguments on an initialized connection handle and
\* InvalidState on a null or uninitialized one.
Thm_C9 ==
    (last.op = "ConnectionGetTableSchema" /\ last.args.table_name = NullStr)
    => /\ pc = "returned"
       /\ last.impl = <<>>
       /\ last.status = IF last.pre = NULL THEN "InvalidState" ELSE "InvalidArguments"

\* ConnectionGetTableSchema has reached its table_name test with a null table_name
Witness_C9 ==
    /\ pc = "returned"
    /\ last.op = "ConnectionGetTableSchema"
    /\ last.pre # NULL
    /\ last.args.table_name = NullStr
    /\ last.args.out_schema # "null"
    /\ last.args.catalog # BadUtf8
    /\ last.args.db_schema # BadUtf8

\* C10 as stated: a SetOption call that violates the adapter contract (null or
\* uninitialized handle, null or badly encoded key or value) returns InvalidArguments or
\* InvalidState without calling the implementation.
Cx_C10 ==
    (/\ last.op \in SetOptionOps
     /\ \/ last.pre = NULL
        \/ last.args.key \in {NullStr, BadUtf8}
        \/ last.args.value \in {NullStr, BadUtf8})
    => /\ pc = "returned"
       /\ last.status \in {"InvalidArguments", "InvalidState"}
       /\ last.impl = <<>>

\* The string the implementation is given for a C string argument of a Statement setter
EmptyIfNull(p) == IF p = NullStr THEN "" ELSE p
\* The last call reached the implementation exactly once, with the call c, and the status
\* returned is the one of the implementation's outcome (a panic returns no status)
CalledOnce(c) ==
    /\ Len(last.impl) = 1
    /\ last.impl[1].call = c
    /\ last.impl[1].result \in ImplOutcomes
    /\ IF last.impl[1].result = "Panic"
       THEN last.panicked
       ELSE pc = "returned" /\ last.status = StatusOfOutcome(last.impl[1].result)

\* C11: on an initialized Statement, StatementSetSqlQuery with a null query, and
\* StatementSetOption with a null key or a null value (the other argument null or well
\* formed), call set_sql_query / set_option once with "" in place of each null argument,
\* and the status returned is the one of the implementation's outcome.
Thm_C11 ==
    /\ (/\ last.op = "StatementSetSqlQuery"
        /\ last.pre # NULL
        /\ last.args.query = NullStr)
         => CalledOnce(<<"set_sql_query", "">>)
    /\ (/\ last.op = "StatementSetOption"
        /\ last.pre # NULL
        /\ NullStr \in {last.args.key, last.args.value}
        /\ BadUtf8 \notin {last.args.key, last.args.value})
         => CalledOnce(<<"set_option", EmptyIfNull(last.args.key),
                         EmptyIfNull(last.args.value)>>)

Witness_C11 ==
    /\ pc = "returned"
    /\ last.op = "StatementSetOption"
    /\ last.pre # NULL
    /\ last.args.key = NullStr
    /\ last.args.value = "a"
    /\ last.impl = Called(<<"set_option", "", "a">>, "IO")
    /\ last.status = "IO"

\* C12: StatementExecuteQuery on an initialized Statement with out and rows_affected both
\* null calls execute() exactly once, and when execute() succeeds (with or without a
\* result) it returns Ok and has written to none of the caller's outputs.
Thm_C12 ==
    (/\ last.op = "StatementExecuteQuery"
     /\ last.pre # NULL
     /\ last.args.out = "null"
     /\ last.args.rows_affected = "null")
      => /\ Len(last.impl) = 1
         /\ last.impl[1].call = <<"execute">>
         /\ last.impl[1].result \in {"Ok", "NoResult"}
              => (pc = "returned" /\ last.status = "Ok" /\ last.wrote = {}
                  /\ last.msg = NoMsg)

Witness_C12 ==
    /\ pc = "returned"
    /\ last.op = "StatementExecuteQuery"
    /\ last.pre # NULL
    /\ last.args.out = "null"
    /\ last.args.rows_affected = "null"
    /\ last.impl = Called(<<"execute">>, "Ok")
    /\ last.status = "Ok"
    /\ last.wrote = {}

\* C13: a StatementExecuteQuery that returns Ok has written rows_affected exactly when
\* that pointer is non-null, and the stream exactly when out is non-null and execute()
\* produced a result; an execute() that succeeds without a result still returns Ok, and
\* leaves the stream record alone.
Thm_C13 ==
    (last.op = "StatementExecuteQuery" /\ Len(last.impl) = 1)
      => /\ (pc = "returned" /\ last.status = "Ok")
              => /\ last.impl[1].result \in {"Ok", "NoResult"}
                 /\ ("rows_affected" \in last.wrote) <=> (last.args.rows_affected # "null")
                 /\ ("stream" \in last.wrote)
                      <=> (last.args.out # "null" /\ last.impl[1].result = "Ok")
                 /\ last.wrote \subseteq {"rows_affected", "stream"}
         /\ last.impl[1].result = "NoResult"
              => (pc = "returned" /\ last.status = "Ok" /\ "stream" \notin last.wrote)

Witness_C13 ==
    /\ pc = "returned"
    /\ last.op = "StatementExecuteQuery"
    /\ last.args.out = "valid"
    /\ last.args.rows_affected = "valid"
    /\ last.impl = Called(<<"execute">>, "NoResult")
    /\ last.status = "Ok"
    /\ last.wrote = {"rows_affected"}

\* C14: when the implementation operation a shim called returns a typed error, the shim
\* returns that error's status_code(), writes none of its outputs, and the Error Record,
\* if there is one, holds that error's message(); for the operations of all three kinds.
Thm_C14 ==
    (Len(last.impl) = 1 /\ last.impl[1].result \in ImplCodes)
      => /\ pc = "returned"
         /\ last.status = status_code(ImplError(last.impl[1].result))
         /\ last.args.error # "null" => last.msg = message(ImplError(last.impl[1].result))
         /\ last.args.error = "null" => last.msg = NoMsg
         /\ last.wrote = {}

Witness_C14 ==
    /\ pc = "returned"
    /\ last.op = "StatementPrepare"
    /\ last.args.error = "valid"
    /\ last.impl = Called(<<"prepare">>, "NotFound")
    /\ last.status = "NotFound"
    /\ last.msg = "no such object"

\* The call recorded in l, made again with e as its Error Record pointer
CallWith(l, e) ==
    LET a == l.args
    IN CASE l.op = "DatabaseNew" -> database_new(a.database, e)
         [] l.op = "DatabaseInit" -> \E o \in ImplOutcomes : database_init(a.database, e, o)
         [] l.op = "DatabaseSetOption" -> database_set_option(a.database, a.key, a.value, e)
         [] l.op = "ConnectionNew" -> connection_new(a.connection, e)
         [] l.op = "ConnectionInit" ->
              \E o \in ImplOutcomes : connection_init(a.connection, a.database, e, o)
         [] l.op = "ConnectionSetOption" ->
              connection_set_option(a.connection, a.key, a.value, e)
         [] l.op = "ConnectionGetInfo" ->
              connection_get_info(a.connection, a.info_codes, a.out, e)
         [] l.op = "ConnectionGetObjects" ->
              connection_get_objects(a.connection, a.depth, a.catalog, a.db_schema,
                                     a.table_name, a.table_type, a.column_name, a.out, e)
         [] l.op = "ConnectionGetTableSchema" ->
              connection_get_table_schema(a.connection, a.catalog, a.db_schema,
                                          a.table_name, a.out_schema, e)
         [] l.op = "ConnectionGetTableTypes" -> connection_get_table_types(a.connection, a.out, e)
         [] l.op = "ConnectionReadPartition" ->
              connection_read_partition(a.connection, a.serialized_partition, a.out, e)
         [] l.op = "ConnectionCommit" -> connection_commit(a.connection, e)
         [] l.op = "ConnectionRollback" -> connection_rollback(a.connection, e)
         [] l.op = "StatementNew" -> statement_new(a.connection, a.statement, e)
         [] l.op = "StatementExecuteQuery" ->
              statement_execute_query(a.statement, a.out, a.rows_affected, e)
         [] l.op = "StatementPrepare" -> statement_prepare(a.statement, e)
         [] l.op = "StatementSetSqlQuery" -> statement_set_sql_query(a.statement, a.query, e)
         [] l.op = "StatementSetSubstraitPlan" ->
              statement_set_substrait_plan(a.statement, a.plan, e)
         [] l.op = "StatementBind" -> statement_bind(a.statement, a.values, a.schema, e)
         [] l.op = "StatementBindStream" -> statement_bind_stream(a.statement, a.stream_ptr, e)
         [] l.op = "StatementGetParameterSchema" ->
              statement_get_parameter_schema(a.statement, a.out_schema, e)
         [] l.op = "StatementSetOption" -> statement_set_option(a.statement, a.key, a.value, e)
         [] l.op = "StatementExecutePartitions" ->
              statement_execute_partitions(a.statement, a.out_schema, a.out_partitions,
                                           a.rows_affected, e)

\* The call recorded in l, made from the same state with the other Error Record pointer,
\* can end as l did: same status, implementation call, outputs, slots and heap
SameWithOtherRecord(l, post) ==
    \E e \in Ptrs \ {l.args.error} :
      ENABLED (/\ CallWith(l, e)
               /\ last'.status = l.status
               /\ last'.impl = l.impl
               /\ last'.wrote = l.wrote
               /\ last'.panicked = l.panicked
               /\ <<dbSlot', connSlot', stmtSlot', heap', pc'>> = post)

Cx_C16 ==
    (last.op \in NewOps /\ HandleOf(last) # NULL)
      => LET slot == SlotOf(last, dbSlot, connSlot, stmtSlot)
         IN \/ last.status = "Ok" /\ slot # NULL /\ SlotSound(slot, KindOf(last.op))
            \/ last.status # "Ok" /\ slot = NULL

\* C16 amended: a *New on a handle returns; either it returns Ok, the slot was null and
\* now holds the box of a fully constructed value, or it fails and the slot is what it was
\* before the call: null, or the untouched value of an earlier *New.  In neither case is
\* a constructed value left behind outside a box.
Thm_C16 ==
    (last.op \in NewOps /\ HandleOf(last) # NULL)
      => LET slot == SlotOf(last, dbSlot, connSlot, stmtSlot)
         IN /\ pc = "returned"
            /\ SlotSound(slot, KindOf(last.op))
            /\ IF last.status = "Ok" THEN last.pre = NULL /\ slot # NULL
                                     ELSE slot = last.pre
            /\ \A a \in Addrs : ~(heap.val[a] = "live" /\ heap.box[a] = "none")

\* StatementNew has failed on a fresh statement handle: its connection is not initialized
Witness_C16 ==
    /\ pc = "returned"
    /\ last.op = "StatementNew"
    /\ HandleOf(last) # NULL
    /\ last.pre = NULL
    /\ last.status = "InvalidState"
    /\ stmtSlot[last.args.statement] = NULL

SchemaOps ==
    {"ConnectionGetTableSchema", "StatementGetParameterSchema", "StatementExecutePartitions"}

\* C17: on an initialized handle, ConnectionGetTableSchema, StatementGetParameterSchema
\* and StatementExecutePartitions with a null out_schema, and StatementExecutePartitions
\* with a null out_partitions, return InvalidArguments, call no implementation operation
\* and write no output; the Error Record, if there is one, gets a message.
Thm_C17 ==
    (/\ last.op \in SchemaOps
     /\ last.pre # NULL
     /\ \/ last.args.out_schema = "null"
        \/ last.op = "StatementExecutePartitions" /\ last.args.out_partitions = "null")
      => /\ pc = "returned"
         /\ last.status = "InvalidArguments"
         /\ last.impl = <<>>
         /\ last.wrote = {}
         /\ (last.msg = NoMsg) <=> (last.args.error = "null")

\* StatementExecutePartitions has returned on an initialized Statement with out_schema
\* given and out_partitions null
Witness_C17 ==
    /\ pc = "returned"
    /\ last.op = "StatementExecutePartitions"
    /\ last.pre # NULL
    /\ last.args.out_schema = "valid"
    /\ last.args.out_partitions = "null"
    /\ last.args.error = "valid"
    /\ last.msg = "Passed nullptr to partitions in ExecutePartitions."

\* C18: StatementBindStream on an initialized Statement returns InvalidArguments without
\* calling bind_stream when the stream pointer is null, and calls bind_stream exactly once
\* and returns the status of its outcome when the pointer is to a stream that can be
\* imported.
Thm_C18 ==
    (last.op = "StatementBindStream" /\ last.pre # NULL)
      => /\ last.args.stream_ptr = "null"
              => /\ pc = "returned"
                 /\ last.status = "InvalidArguments"
                 /\ last.impl = <<>>
                 /\ (last.msg = NoMsg) <=> (last.args.error = "null")
         /\ last.args.stream_ptr = "valid" => CalledOnce(<<"bind_stream">>)

\* StatementBindStream has returned InvalidArguments for a null stream pointer
Witness_C18 ==
    /\ pc = "returned"
    /\ last.op = "StatementBindStream"
    /\ last.pre # NULL
    /\ last.args.stream_ptr = "null"
    /\ last.status = "InvalidArguments"

\* The filter get_objects is given for the C string pointer p: absent for a null pointer,
\* else the string itself, the empty string included
FilterOf(p) == IF p = NullStr THEN None ELSE p

\* C19: ConnectionGetObjects on an initialized Connection with a null table_type array
\* and well-formed filters calls get_objects exactly once, with every null filter pointer
\* as an absent filter, every pointer to an empty string as the present empty string, and
\* an empty list of table types; and no call of get_objects is ever given anything else
\* for the filters it was passed.
Thm_C19 ==
    last.op = "ConnectionGetObjects"
      => LET a == last.args
             call == <<"get_objects", a.depth, FilterOf(a.catalog), FilterOf(a.db_schema),
                       FilterOf(a.table_name), <<>>, FilterOf(a.column_name)>>
         IN /\ last.impl # <<>> => (Len(last.impl) = 1 /\ last.impl[1].call = call)
            /\ (/\ last.pre # NULL
                /\ a.table_type.null
                /\ BadUtf8 \notin {a.catalog, a.db_schema, a.table_name, a.column_name})
                 => last.impl # <<>>

\* get_objects has been called with an absent catalog filter and an empty table_name filter
Witness_C19 ==
    /\ pc = "returned"
    /\ last.op = "ConnectionGetObjects"
    /\ last.args.catalog = NullStr
    /\ last.args.table_name = ""
    /\ last.args.table_type.null
    /\ last.status = "Ok"
    /\ last.impl = Called(<<"get_objects", "All", None, FilterOf(last.args.db_schema), "",
                           <<>>, FilterOf(last.args.column_name)>>, "Ok")

\* The Statement values that hold a reference to the Connection value at a
StatementsOf(h, a) ==
    {s \in Addrs : h.kind[s] = "Statement" /\ h.val[s] = "live" /\ h.parent[s] = a}

\* C20: a Connection value is alive as long as its handle owns it or a live Statement
\* was created from it, so ConnectionRelease does not destroy it under a live Statement;
\* its reference count is the handle's reference plus one for each such Statement; it is
\* destroyed, once, when the handle and all those Statements have been released.
Thm_C20 ==
    \A a \in Addrs :
        heap.kind[a] = "Connection" =>
            /\ (heap.box[a] = "live" \/ StatementsOf(heap, a) # {}) => heap.val[a] = "live"
            /\ heap.strong[a] = Cardinality(StatementsOf(heap, a))
                                  + (IF heap.box[a] = "live" THEN 1 ELSE 0)
            /\ (heap.box[a] # "live" /\ StatementsOf(heap, a) = {}) => heap.val[a] = "dropped"
            /\ heap.val[a] # "double-dropped"

\* ConnectionRelease has freed the handle's box while a live Statement references the
\* Connection, which is still alive
Witness_C20 ==
    /\ pc = "returned"
    /\ last.op = "ConnectionRelease"
    /\ last.pre # NULL
    /\ heap.box[last.pre] = "freed"
    /\ heap.val[last.pre] = "live"
    /\ \E s \in StmtHandles : /\ stmtSlot[s] # NULL
                              /\ stmtSlot[s] \in StatementsOf(heap, last.pre)

\* C22: the release function of the Driver Table returns Ok and writes nothing but the
\* table's own release pointer, which it clears: every other slot of the table, every
\* handle's slot and the heap are unchanged; on a table already released it changes
\* nothing, and with a null table pointer it changes nothing either.
Thm_C22 ==
    [][(pc = "caller" /\ last'.op = "DriverRelease") =>
          /\ last'.status = "Ok"
          /\ pc' = "returned"
          /\ UNCHANGED <<dbSlot, connSlot, stmtSlot, heap>>
          /\ \A s \in DriverSlots \ {"release"} : driver'[s] = driver[s]
          /\ last'.args.driver # NULL => driver'["release"] = None
          /\ last'.args.driver = NULL => driver' = driver
          /\ driver["release"] = None => driver' = driver]_vars

\* The release function has returned on a table it had released before, while handles
\* are initialized
Witness_C22 ==
    /\ pc = "returned"
    /\ last.op = "DriverRelease"
    /\ last.args.driver # NULL
    /\ last.pre = None
    /\ driver["release"] = None
    /\ driver["StatementNew"] = "Some"
    /\ \E c \in ConnHandles : connSlot[c] # NULL

\* The slot of handle h was written by the call just made: by the *New of its kind, from
\* null to the box of the value built, or by the *Release of its kind, from a box to null
SlotWrittenBy(l, newOp, releaseOp, h, old, new) ==
    \/ l.op = newOp /\ HandleOf(l) = h /\ l.status = "Ok" /\ old = NULL /\ new # NULL
    \/ l.op = releaseOp /\ HandleOf(l) = h /\ l.status = "Ok" /\ old # NULL /\ new = NULL

\* C23: in every step of a call, a handle's slot changes only when the call is the *New
\* of its kind on that handle (null to non-null) or the *Release of its kind on that handle
\* (non-null to null); *Init, *SetOption and every other entry point, succeeding or
\* failing, leave all slots as they are.  (The step back to the caller does not run the
\* program: it is where the addresses are renumbered.)
Thm_C23 ==
    [][pc # "returned" =>
          /\ \A d \in DbHandles :
               dbSlot'[d] # dbSlot[d] =>
                 SlotWrittenBy(last', "DatabaseNew", "DatabaseRelease", d, dbSlot[d], dbSlot'[d])
          /\ \A c \in ConnHandles :
               connSlot'[c] # connSlot[c] =>
                 SlotWrittenBy(last', "ConnectionNew", "ConnectionRelease", c,
                               connSlot[c], connSlot'[c])
          /\ \A s \in StmtHandles :
               stmtSlot'[s] # stmtSlot[s] =>
                 SlotWrittenBy(last', "StatementNew", "StatementRelease", s,
                               stmtSlot[s], stmtSlot'[s])
          /\ (last'.op \in AccessorOps \cup {"DriverRelease"})
               => UNCHANGED <<dbSlot, connSlot, stmtSlot>>]_vars

\* ConnectionInit has failed in the implementation on an initialized Connection, whose
\* slot holds what it held before the call
Witness_C23 ==
    /\ pc = "returned"
    /\ last.op = "ConnectionInit"
    /\ last.status = "IO"
    /\ last.pre # NULL
    /\ connSlot[last.args.connection] = last.pre

\* C24: a call that returns a status other than Ok has written to none of the caller's
\* outputs (stream, schema, rows_affected, partitions) and has changed no handle's slot.
Thm_C24 ==
    [][(pc \in {"caller", "get_objects"} /\ pc' = "returned" /\ last'.status # "Ok") =>
          /\ last'.wrote = {}
          /\ UNCHANGED <<dbSlot, connSlot, stmtSlot>>]_vars

\* StatementExecutePartitions, given all of its outputs, has failed to convert the schema
\* of a successful execute_partitioned()
Witness_C24 ==
    /\ pc = "returned"
    /\ last.op = "StatementExecutePartitions"
    /\ last.args.out_schema = "valid"
    /\ last.args.out_partitions = "valid"
    /\ last.args.rows_affected = "valid"
    /\ last.impl = Called(<<"execute_partitioned">>, "BadSchema")
    /\ last.status = "Internal"
    /\ last.wrote = {}

\* C25: ConnectionInit given a Connection handle or a Database handle that is null or
\* whose slot is null returns InvalidState without calling the implementation's init, and
\* leaves every reference count (the heap as a whole) and every slot as it was.
Thm_C25 ==
    [][(/\ pc = "caller"
        /\ last'.op = "ConnectionInit"
        /\ \/ Pre(connSlot, last'.args.connection) = NULL
           \/ Pre(dbSlot, last'.args.database) = NULL) =>
          /\ pc' = "returned"
          /\ last'.status = "InvalidState"
          /\ last'.impl = <<>>
          /\ heap'.strong = heap.strong
          /\ UNCHANGED <<heap, dbSlot, connSlot, stmtSlot>>]_vars

\* ConnectionInit has been refused for a Connection handle that was not initialized,
\* given an initialized Database handle
Witness_C25 ==
    /\ pc = "returned"
    /\ last.op = "ConnectionInit"
    /\ last.args.connection # NULL
    /\ last.pre = NULL
    /\ Pre(dbSlot, last.args.database) # NULL
    /\ heap.strong[dbSlot[last.args.database]] = 1
    /\ last.status = "InvalidState"

\* The call l is given a handle whose slot is null and is neither the *New nor the *Release
\* of that handle: an accessor of the handle's kind, ConnectionInit for its Database
\* handle, StatementNew for its Connection handle
UsesReleased(l) ==
    \/ l.op \in AccessorOps /\ HandleOf(l) # NULL /\ l.pre = NULL
    \/ l.op = "ConnectionInit" /\ l.args.database # NULL /\ dbSlot[l.args.database] = NULL
    \/ l.op = "StatementNew" /\ l.args.connection # NULL
         /\ connSlot[l.args.connection] = NULL

\* C26: *Release on an initialized handle frees the box and leaves the slot null; a null
\* slot stays null until the *New of its kind is called on the handle; and every call that
\* uses a handle whose slot is null returns InvalidState without calling the
\* implementation, without crashing and without touching the heap.  So from a *Release
\* until the next *New on the handle, the value it destroyed is never reached.
Thm_C26 ==
    [][pc # "returned" =>
          /\ (last'.op \in ReleaseOps /\ last'.pre # NULL) =>
                /\ SlotOf(last', dbSlot', connSlot', stmtSlot') = NULL
                /\ heap.box[last'.pre] = "live"
                /\ heap'.box[last'.pre] = "freed"
          /\ \A d \in DbHandles :
               (dbSlot[d] = NULL /\ dbSlot'[d] # NULL)
                 => (last'.op = "DatabaseNew" /\ last'.args.database = d)
          /\ \A c \in ConnHandles :
               (connSlot[c] = NULL /\ connSlot'[c] # NULL)
                 => (last'.op = "ConnectionNew" /\ last'.args.connection = c)
          /\ \A s \in StmtHandles :
               (stmtSlot[s] = NULL /\ stmtSlot'[s] # NULL)
                 => (last'.op = "StatementNew" /\ last'.args.statement = s)
          /\ (pc = "caller" /\ UsesReleased(last')) =>
                /\ pc' = "returned"
                /\ last'.status = "InvalidState"
                /\ last'.impl = <<>>
                /\ last'.wrote = {}
                /\ UNCHANGED <<heap, dbSlot, connSlot, stmtSlot>>]_vars

\* DatabaseSetOption has been refused on the database handle after its DatabaseRelease:
\* the handle's slot is null and the box the release freed is still there, its Database
\* kept alive by a Connection
Witness_C26 ==
    /\ pc = "returned"
    /\ last.op = "DatabaseSetOption"
    /\ last.args.database # NULL
    /\ last.pre = NULL
    /\ last.status = "InvalidState"
    /\ \A d \in DbHandles : dbSlot[d] = NULL
    /\ \E a \in Addrs : /\ heap.kind[a] = "Database"
                        /\ heap.box[a] = "freed"
                        /\ heap.val[a] = "live"

\* The kind of value a value of kind k holds a reference to
ParentKind(k) ==
    IF k = "Statement" THEN "Connection" ELSE IF k = "Connection" THEN "Database" ELSE "none"

\* C27: the reference count of every Connection value is 1 if a Connection handle's slot
\* holds it, else 0, plus the number of live Statements created from it; a reference goes
\* from a Statement to a Connection or from a Connection to a Database and nowhere else
\* (so there is no cycle); and when every handle's slot is null, whatever the order of the
\* releases was, no value is alive, no count is positive and nothing was destroyed twice.
Thm_C27 ==
    /\ \A a \in Addrs :
         heap.kind[a] = "Connection" =>
            heap.strong[a] = (IF \E c \in ConnHandles : connSlot[c] = a THEN 1 ELSE 0)
                                + Cardinality(StatementsOf(heap, a))
    /\ \A a \in Addrs :
         heap.parent[a] # NULL =>
            /\ heap.val[a] = "live"
            /\ heap.val[heap.parent[a]] = "live"
            /\ heap.kind[heap.parent[a]] = ParentKind(heap.kind[a])
    /\ ((\A d \in DbHandles : dbSlot[d] = NULL)
         /\ (\A c \in ConnHandles : connSlot[c] = NULL)
         /\ (\A s \in StmtHandles : stmtSlot[s] = NULL))
        => \A a \in Addrs : /\ heap.val[a] \in {"none", "dropped"}
                            /\ heap.box[a] \in {"none", "freed"}
                            /\ heap.strong[a] = 0
    /\ NothingDestroyedTwice(heap)

\* The last handle of a family has been released, the Database handle and the Connection
\* handle before the Statement handle: the StatementRelease has destroyed the Statement,
\* its Connection and the Database, and nothing is left
Witness_C27 ==
    /\ pc = "returned"
    /\ last.op = "StatementRelease"
    /\ last.pre # NULL
    /\ \A d \in DbHandles : dbSlot[d] = NULL
    /\ \A c \in ConnHandles : connSlot[c] = NULL
    /\ \A s \in StmtHandles : stmtSlot[s] = NULL
    /\ \E c, d \in Addrs : /\ heap.kind[c] = "Connection" /\ heap.val[c] = "dropped"
                           /\ heap.kind[d] = "Database" /\ heap.val[d] = "dropped"
    /\ \A a \in Addrs : heap.val[a] # "live"

\* C28: StatementNew on an initialized Connection that fails, because the statement
\* pointer is null or the statement handle is already initialized, returns InvalidState
\* with the Statement it built destroyed (never boxed, its Connection reference given
\* back): every reference count, the Connection's included, is what it was before the
\* call, the same values are alive and no slot has changed.
Thm_C28 ==
    [][(/\ pc = "caller"
        /\ last'.op = "StatementNew"
        /\ Pre(connSlot, last'.args.connection) # NULL
        /\ \/ last'.args.statement = NULL
           \/ last'.pre # NULL) =>
          LET conn == connSlot[last'.args.connection]
          IN /\ pc' = "returned"
             /\ last'.status = "InvalidState"
             /\ heap'.strong[conn] = heap.strong[conn]
             /\ heap'.strong = heap.strong
             /\ StatementsOf(heap', conn) = StatementsOf(heap, conn)
             /\ \E a \in Addrs : /\ heap.val[a] = "none"
                                 /\ heap'.kind[a] = "Statement"
                                 /\ heap'.val[a] = "dropped"
                                 /\ heap'.box[a] = "none"
                                 /\ heap'.parent[a] = NULL
             /\ \A a \in Addrs : (heap'.val[a] = "live") = (heap.val[a] = "live")
             /\ UNCHANGED <<dbSlot, connSlot, stmtSlot>>]_vars

\* StatementNew has failed for a null statement pointer on a Connection that a live
\* Statement already references
Witness_C28 ==
    /\ pc = "returned"
    /\ last.op = "StatementNew"
    /\ last.args.statement = NULL
    /\ Pre(connSlot, last.args.connection) # NULL
    /\ heap.strong[connSlot[last.args.connection]] = 2
    /\ last.status = "InvalidState"
    /\ \E a \in Addrs : heap.kind[a] = "Statement" /\ heap.val[a] = "dropped"

\* The batch of the table types v: one non-nullable Utf8 column named table_type, one
\* row for each element of v
TableTypesBatch(v) ==
    [schema |-> << [name |-> "table_type", type |-> "Utf8", nullable |-> FALSE] >>,
     columns |-> << [type |-> "Utf8", values |-> v, null_count |-> 0] >>,
     num_rows |-> Len(v)]

\* C29: the stream of a ConnectionGetTableTypes call gives, on the first pull, the batch
\* of the table types the implementation returned (one non-nullable Utf8 column
\* table_type, a row for each type, in order), on every later pull the end of the stream,
\* and whenever it is asked, before or after the batch was taken, the schema of that batch.
Thm_C29 ==
    batchReader.made =>
        /\ \A i \in 1..Len(batchReader.items) :
             batchReader.items[i] =
                 IF i = 1 THEN [end |-> FALSE, batch |-> TableTypesBatch(batchReader.table_types)]
                 ELSE EndOfStream
        /\ \A s \in batchReader.schemas :
             s.schema = TableTypesBatch(batchReader.table_types).schema

\* The stream of two table types has been pulled to its end and one pull beyond, and
\* asked for its schema before the first pull and after the batch was taken
Witness_C29 ==
    /\ batchReader.made
    /\ batchReader.table_types = <<"TABLE", "VIEW">>
    /\ Len(batchReader.items) = 3
    /\ batchReader.items[1].batch.num_rows = 2
    /\ batchReader.items[3] = EndOfStream
    /\ \E s, t \in batchReader.schemas : s.pulls = 0 /\ t.pulls >= 1

\* The references to the Database value at a that exist: the one of the handle's box, the
\* one every initialized Connection keeps, and the ones threads hold in a call (cloned
\* and not yet given to init, or about to be dropped)
DatabaseOwners(a) ==
    (IF heap.box[a] = "live" THEN 1 ELSE 0)
        + Cardinality(ConnectionsOf(heap, a))
        + Cardinality({t \in Threads : thread[t].pc \in {"init", "arc_dec"}
                                         /\ thread[t].db = a})
\* The threads whose decrement of the count of a made it zero and that have not yet
\* destroyed the value
Destroying(a) ==
    {t \in Threads : thread[t].pc = "arc_dropped" /\ thread[t].db = a /\ thread[t].old = 1}

\* C21: with ConnectionInit and ConnectionRelease running on a thread per Connection, and
\* DatabaseRelease on another, in every interleaving of their steps the Database's
\* reference count is the number of references that exist (no update is lost); the
\* Database is alive while the count is positive, is destroyed by exactly one thread, the
\* one that dropped the last reference, and is never destroyed twice.
Thm_C21 ==
    \A a \in Addrs :
        heap.kind[a] = "Database" =>
            /\ heap.strong[a] = DatabaseOwners(a)
            /\ heap.strong[a] > 0 => (heap.val[a] = "live" /\ Destroying(a) = {})
            /\ heap.strong[a] = 0 =>
                 /\ Cardinality(Destroying(a)) <= 1
                 /\ (heap.val[a] = "live") <=> (Destroying(a) # {})
                 /\ (heap.val[a] = "dropped") <=> (Destroying(a) = {})
            /\ heap.val[a] # "double-dropped"

\* The Database handle has been released and the two Connections are dropping their
\* references at the same time: both threads have decremented the count, one of them to
\* zero, and neither has gone on yet
Witness_C21 ==
    \E t1, t2 \in ConnHandles :
        /\ t1 # t2
        /\ thread[t1].pc = "arc_dropped" /\ thread[t1].old = 1
        /\ thread[t2].pc = "arc_dropped" /\ thread[t2].old = 2
        /\ thread[t1].db = thread[t2].db
        /\ thread[t1].op = "ConnectionRelease"
        /\ heap.box[thread[t1].db] = "freed"

TypeOK ==
    /\ pc \in {"caller", "get_objects", "returned", "dead"}
    /\ \A a \in Addrs : heap.strong[a] \in 0..(MaxAlloc + 1)
====
